---- MODULE Spec2Model ----
(***************************************************************************)
(* Playback engine of mqtt-dmx-sequencer (main.py, dmx_senders.py).        *)
(*                                                                         *)
(* The engine has no lock around its playback state: bus and HTTP handlers *)
(* and the threads started by play_scene / play_sequence /                 *)
(* play_programmable_scene / trigger_*_fallback all read and write the     *)
(* attributes of one MQTTDMXSequencer object.  Every thread is modelled as *)
(* a record with a program counter; one step of the model is one read or   *)
(* write of the shared attributes (a Python attribute access is atomic     *)
(* under the interpreter lock, a method is not).                           *)
(*                                                                         *)
(* Wall-clock time is an input: a sleep returns after any delay, so the    *)
(* tests `step_elapsed < duration` and `current_time >= duration` are      *)
(* decided by the environment whenever the duration is positive.           *)
(***************************************************************************)
EXTENDS Integers, Sequences, FiniteSets, TLC

\* ------------------------------------------------------------------ bounds
NumChannels == 2      \* channels of the universe that are modelled (of 512)
MaxCmds     == 2      \* commands received from the bus and the HTTP API
MaxThreads  == 5      \* threads alive at the same time
MaxFallbacks == 1     \* fallback timers armed in one behaviour
MaxChain == 3         \* fallback timers that one played scene may lead to
MaxNow == 4           \* the clock stops here
MaxHandlers == 2      \* pause and resume requests being handled at once
MaxKey == 3           \* channels named by the maps given to apply_follower_channels
MaxFollowers == 2     \* followers listed for one source
MaxConfigs == 2       \* senders configured in settings['dmx']['default_configs']
StartTime == 1        \* time.time() when the engine is constructed

\* ------------------------------------------------------- program constants
MaxValue == 255       \* dmx_senders.py:48  0 <= value <= 255
\* intervals of the retransmission, in tenths of a second
MinInterval == 1        \* main.py:1349  interval < 0.1
MaxInterval == 600      \* main.py:1349  interval > 60.0
DefaultInterval == 50   \* main.py:204   'interval': 5.0

Channels == 1..NumChannels

\* Python None.  An attribute holding None is the empty tuple, an attribute
\* holding an object is the one-element tuple of that object, so that the
\* truth test `if self.x:` is  x # None.
None == <<>>
Some(x) == <<x>>
NoValue == -1         \* a null slot of a scene

\* ------------------------------------------------------------ configuration
\* config['scenes']: name -> list of slots (null or 0..255)
scenes ==
  ( "warm"     :> [c \in Channels |-> IF c = 1 THEN 255 ELSE NoValue] ) @@
  ( "blackout" :> [c \in Channels |-> 0] )

SceneStep(name, d) == [kind |-> "scene", scene_name |-> name, dmx |-> <<>>, duration |-> d]
DmxStep(m, d)      == [kind |-> "dmx", scene_name |-> "", dmx |-> m, duration |-> d]

\* config['sequences']: name -> {steps, loop}
sequences ==
  ( "flash" :> [steps |-> << DmxStep((1 :> 200), 1), DmxStep((1 :> 0), 0) >>,
                loop  |-> TRUE] ) @@
  ( "chase" :> [steps |-> << DmxStep((1 :> 7), 1), DmxStep((2 :> 9), 1) >>,
                loop  |-> FALSE] ) @@
  ( "show"  :> [steps |-> << SceneStep("warm", 1), DmxStep((2 :> 50), 1) >>,
                loop  |-> FALSE] )

\* config['programmable_scenes']: id -> {duration, loop, expressions}
programmable_scenes ==
  ( "pulse" :> [duration |-> 2, loop |-> TRUE,  expressions |-> (1 :> "100*t")] ) @@
  ( "ramp"  :> [duration |-> 2, loop |-> FALSE, expressions |-> (2 :> "ch")] ) @@
  ( "still" :> [duration |-> 0, loop |-> TRUE,  expressions |-> (1 :> "ch")] ) @@
  ( "wrong" :> [duration |-> 2, loop |-> FALSE, expressions |-> (1 :> "1/0")] )

\* the programmable scenes that run for a time and evaluate
Regular == {"pulse", "ramp"}

\* scene_time values the clock can produce when a frame is evaluated
Times == {0, 1}

\* settings: scenes.auto_send, sequences.auto_play
auto_send == TRUE
auto_play == TRUE

\* config['fallback'] as the engine can find it at start-up
FallbackOff ==
  [enabled |-> FALSE, type |-> "scene", id |-> "",
   scene_fallback    |-> [enabled |-> FALSE, scene_id |-> ""],
   sequence_fallback |-> [enabled |-> FALSE, scene_id |-> ""]]
FallbackNew ==
  [FallbackOff EXCEPT !.scene_fallback    = [enabled |-> TRUE, scene_id |-> "blackout"],
                      !.sequence_fallback = [enabled |-> TRUE, scene_id |-> "blackout"]]
FallbackLegacy ==
  [FallbackOff EXCEPT !.enabled = TRUE, !.type = "scene", !.id = "blackout"]
FallbackConfigs == {FallbackOff, FallbackNew, FallbackLegacy}

\* settings['dmx_followers'], its default
FollowersOff == [enabled |-> FALSE, mappings |-> <<>>]
\* {"enabled": true, "mappings": {"1": [2]}}
FollowersOn == [enabled |-> TRUE, mappings |-> << <<1, <<2>>>> >>]
\* the same mappings, not enabled
FollowersDisabled == [FollowersOn EXCEPT !.enabled = FALSE]

VARIABLES
  current_scene_playback,               \* None or Some(scene name)
  current_sequence_playback,            \* None or Some([sequence, loop])
  current_programmable_scene_playback,  \* None or Some(scene id)
  current_step_index,
  current_step_data,                    \* None or Some([duration])
  playback_paused,
  shutdown_requested,
  last_mqtt_channel_update,   \* None or Some([channel, value])
  playback_pause_time,        \* None or Some(time of the pause)
  total_pause_time,
  now,                \* time.time()
  limits,             \* what the environment does: [cmds, fallbacks]
  mqtt,               \* the bus client: the flags of the engine, the topics it
                      \* recorded, the session at the broker and the link
  active,             \* history: the time that passed while not paused
  call,               \* history: None or Some([arg, result]) of a function called
  returned,           \* history: the answers of get_channel_update that were no null
  dmx_retransmission_settings,   \* [enabled, interval]
  dmx_retransmission_stop,       \* the Event: TRUE when set
  dmx_retransmission_thread,     \* None or Some([id, n]): the n-th thread started
  fallback_config,
  dmx_followers_settings,   \* [enabled, mappings: tuple of <<source, followers>>]
  senders,            \* DMXManager.senders: name -> [active, universe_data, wire]
  thr,                \* the threads: id -> record, see NoThread
  received,           \* history: the commands received, in order
  fb_fired,           \* history: a fallback timer ran out after the last command
  armed,              \* history: fallback timers armed so far
  stamps,             \* history: playback workers started so far
  seq_cleared_by      \* history: who wrote current_sequence_playback last

vars == << current_scene_playback, current_sequence_playback,
           current_programmable_scene_playback, current_step_index,
           current_step_data, playback_paused, shutdown_requested,
           last_mqtt_channel_update, playback_pause_time, total_pause_time,
           now, limits, mqtt, active, call, returned, dmx_retransmission_settings,
           dmx_retransmission_stop, dmx_retransmission_thread,
           fallback_config, dmx_followers_settings, senders, thr, received, fb_fired, armed,
           stamps, seq_cleared_by >>

playback == << current_scene_playback, current_sequence_playback,
               current_programmable_scene_playback, current_step_index,
               current_step_data, playback_paused >>

timing == << playback_pause_time, total_pause_time >>

retransmission == << dmx_retransmission_settings, dmx_retransmission_stop,
                     dmx_retransmission_thread >>

\* the environment, the histories of calls and answers, and the
\* retransmission, which the playback and channel actions never write
env == << limits, mqtt, now, active, call, returned, retransmission >>

ThreadIds == 1..MaxThreads

history == << received, fb_fired, armed, stamps >>

\* A thread that has not been started.  kind: cmd (a bus or HTTP handler),
\* seqrun (play_sequence.run), progrun (play_programmable_scene.run),
\* scenerun (play_scene.run), fb (a run_*_fallback timer thread).
NoThread ==
  [kind |-> "free", op |-> "", pc |-> "free", arg |-> "", loop |-> FALSE,
   i |-> 0, scene |-> "", ret |-> "", broke |-> FALSE, stopped |-> FALSE,
   prev |-> <<>>, raw |-> FALSE,
   \* history fields, read by the properties only
   ctx |-> "", cancel |-> "", log |-> <<>>, stamp |-> 0, seen |-> {},
   superseded |-> FALSE, at |-> 0, base |-> 0,
   \* the arguments of a channel request: channel, value, channels
   channel |-> 0, value |-> 0, channels |-> <<>>,
   \* setup_dmx_senders: dmx_configs
   configs |-> <<>>,
   \* the locks the thread holds: "manager" (DMXManager.lock), "sender"
   \* (DMXSender.lock)
   holds |-> {},
   \* start_time of play_programmable_scene.run
   start |-> 0]

Live(t) == thr[t].kind # "free"


\* ---------------------------------------------------------------- DMX layer
\* A number of a request body that is no integer, n + 1/2, is written
\* Fraction(n); every other number is the integer itself.
Fraction(n) == MaxValue + MaxValue + 1 + n

\* isinstance(value, int)
IsInteger(v) == v <= MaxValue + MaxValue

\* the comparison 0 <= value <= 255 on Python numbers
InRange(v) ==
  IF IsInteger(v) THEN 0 <= v /\ v <= MaxValue
  ELSE 0 <= v - Fraction(0) /\ v - Fraction(0) < MaxValue

\* DMXSender.set_channel: written when channel and value are in range
\* (Channels stands for 1..512)
DMXSender_set_channel(data, channel, value) ==
  IF channel \in Channels /\ InRange(value)
  THEN [data EXCEPT ![channel] = value] ELSE data

\* DMXSender.set_channels: entries out of range are skipped, the others
\* written, all under the sender's lock.
DMXSender_set_channels(data, channels) ==
  [c \in Channels |->
     IF c \in DOMAIN channels /\ InRange(channels[c])
     THEN channels[c] ELSE data[c]]

\* DMXManager.set_channel(channel, value) without sender_name
DMXManager_set_channel(snd, channel, value) ==
  [n \in DOMAIN snd |->
     IF snd[n].active
     THEN [snd[n] EXCEPT !.universe_data = DMXSender_set_channel(@, channel, value)]
     ELSE snd[n]]

\* a blackout that zeroes the universes and sends nothing
DMXManager_blackout_unsent(snd) ==
  [n \in DOMAIN snd |->
     IF snd[n].active
     THEN [snd[n] EXCEPT !.universe_data = [c \in Channels |-> 0]]
     ELSE snd[n]]

\* DMXManager.blackout() without sender_name: DMXSender.blackout zeroes the
\* universe and sends it
DMXManager_blackout(snd) ==
  [n \in DOMAIN snd |->
     IF snd[n].active
     THEN [snd[n] EXCEPT !.universe_data = [c \in Channels |-> 0],
                         !.wire = [c \in Channels |-> 0]]
     ELSE snd[n]]

\* DMXManager.set_channels(channels) without sender_name: every active sender.
DMXManager_set_channels(snd, channels) ==
  [n \in DOMAIN snd |->
     IF snd[n].active
     THEN [snd[n] EXCEPT !.universe_data = DMXSender_set_channels(@, channels)]
     ELSE snd[n]]

\* DMXManager.send() without sender_name: every active sender puts its
\* universe on the wire.
DMXManager_send(snd) ==
  [n \in DOMAIN snd |->
     IF snd[n].active THEN [snd[n] EXCEPT !.wire = snd[n].universe_data]
     ELSE snd[n]]

RECURSIVE FollowersOf_chained(_, _, _, _)
\* the loop reading the source's value from the map being built
FollowersOf_chained(mappings, channels, updated, k) ==
  IF k > Len(mappings) THEN updated
  ELSE LET src == mappings[k][1]
           fol == mappings[k][2]
           upd == IF src \in DOMAIN updated
                  THEN [c \in (DOMAIN updated) \cup {fol[j] : j \in 1..Len(fol)} |->
                          IF \E j \in 1..Len(fol) : fol[j] = c THEN updated[src]
                          ELSE updated[c]]
                  ELSE updated
       IN FollowersOf_chained(mappings, channels, upd, k + 1)

RECURSIVE FollowersOf(_, _, _, _)
\* the loop of apply_follower_channels over mappings.items(), from entry k
FollowersOf(mappings, channels, updated, k) ==
  IF k > Len(mappings) THEN updated
  ELSE LET src == mappings[k][1]
           fol == mappings[k][2]
           upd == IF src \in DOMAIN channels
                  THEN [c \in (DOMAIN updated) \cup {fol[j] : j \in 1..Len(fol)} |->
                          IF \E j \in 1..Len(fol) : fol[j] = c THEN channels[src]
                          ELSE updated[c]]
                  ELSE updated
       IN FollowersOf(mappings, channels, upd, k + 1)

\* apply_follower_channels without the test of 'enabled'
apply_follower_channels_always(channels) ==
  FollowersOf(dmx_followers_settings.mappings, channels, channels, 1)

apply_follower_channels(channels) ==
  IF ~dmx_followers_settings.enabled THEN channels
  ELSE FollowersOf(dmx_followers_settings.mappings, channels, channels, 1)

\* set_channels_with_followers giving a follower the value its source had
\* in the universe before the call
set_channels_with_followers_stale(snd, channels) ==
  [n \in DOMAIN snd |->
     IF snd[n].active
     THEN [snd[n] EXCEPT !.universe_data =
             [c \in Channels |->
                IF \E src \in DOMAIN channels :
                     c \in DOMAIN apply_follower_channels(src :> channels[src])
                     /\ c # src
                THEN snd[n].universe_data[
                       CHOOSE src \in DOMAIN channels :
                         c \in DOMAIN apply_follower_channels(src :> channels[src])
                         /\ c # src]
                ELSE IF c \in DOMAIN channels /\ InRange(channels[c])
                     THEN channels[c] ELSE @[c]]]
     ELSE snd[n]]

\* set_channels_with_followers(channels)
set_channels_with_followers(snd, channels) ==
  DMXManager_set_channels(snd, apply_follower_channels(channels))

\* the channel map of a scene with a null slot taken as 0
SceneChannels_null_as_zero(scene_data) ==
  [c \in DOMAIN scene_data |->
     IF scene_data[c] = NoValue THEN 0 ELSE scene_data[c]]

\* the channel map play_scene.run builds from the slots of a scene
SceneChannels(scene_data) ==
  [c \in {d \in DOMAIN scene_data : scene_data[d] # NoValue} |-> scene_data[c]]

Clamp(v) == IF v < 0 THEN 0 ELSE IF v > MaxValue THEN MaxValue ELSE v

\* what eval gives, with t and ch put in for the variables, in the
\* evaluator's namespace with no builtins: a number, written in halves (v
\* stands for v/2), a tuple of numbers, a value that is no number, or an
\* exception (a division by zero, a name the namespace does not hold)
Number(v) == [kind |-> "number", v |-> << v >>]
Tuple(vs) == [kind |-> "tuple", v |-> vs]
Raises    == [kind |-> "raise", v |-> << >>]
Eval(expression, t, ch) ==
  CASE expression = "100*t"  -> Number(200 * t)
    [] expression = "ch"     -> Number(2 * ch)
    [] expression = "t/2"    -> Number(t)
    [] expression = "t-1.5"  -> Number(2 * t - 3)
    [] expression = "300"    -> Number(600)
    [] expression = "hsv_to_rgb(0,1,1)" -> Tuple(<< 510, 0, 0 >>)
    [] expression = "(300,-5*t)" -> Tuple(<< 600, 0 - 10 * t >>)
    [] expression = "'a'"    -> [kind |-> "text", v |-> << >>]
    [] expression = "1/0"    -> Raises
    [] expression = "os"     -> Raises
    [] expression = "open('x')" -> Raises
    [] OTHER                 -> Raises

\* round(x) of Python: the nearest integer, the even one of two
Round(v) ==
  IF v % 2 = 0 THEN v \div 2
  ELSE IF ((v - 1) \div 2) % 2 = 0 THEN (v - 1) \div 2 ELSE (v + 1) \div 2

\* evaluate_expression with its result unclamped
evaluate_expression_unclamped(expression, t, ch) ==
  LET result == Eval(expression, t, ch) IN
  IF result.kind = "tuple"
  THEN IF ch \in {7, 8, 9}
       THEN IF ch - 6 > Len(result.v) THEN 0 ELSE Round(result.v[ch - 6])
       ELSE 0
  ELSE IF result.kind = "number" THEN Round(result.v[1]) ELSE 0

\* ProgrammableSceneEvaluator.evaluate_expression: a tuple gives its
\* component for channel 7, 8, 9 and 0 for another channel, a number is
\* rounded and clamped, and every exception (of eval, of a missing
\* component, of round on a value that is no number) gives 0.
evaluate_expression(expression, t, ch) ==
  LET result == Eval(expression, t, ch) IN
  IF result.kind = "tuple"
  THEN IF ch \in {7, 8, 9}
       THEN IF ch - 6 > Len(result.v) THEN 0 ELSE Clamp(Round(result.v[ch - 6]))
       ELSE 0
  ELSE IF result.kind = "number" THEN Clamp(Round(result.v[1])) ELSE 0

\* get_playback_status()["is_playing"]
is_playing ==
  \/ current_sequence_playback # None
  \/ current_scene_playback # None
  \/ current_programmable_scene_playback # None

\* ------------------------------------------------------------------ threads
\* a thread that returns is gone
Fin(r) == IF r.pc = "done" THEN NoThread ELSE r

Step(t, r) == thr' = [thr EXCEPT ![t] = Fin(r)]

FreeId == CHOOSE u \in ThreadIds :
            thr[u].kind = "free" /\ \A v \in 1..(u - 1) : thr[v].kind # "free"

\* thread t moves to r and starts the thread new
StepStart(t, r, new) ==
  /\ \E u \in ThreadIds : thr[u].kind = "free"
  /\ thr' = [thr EXCEPT ![t] = Fin(r), ![FreeId] = new]

\* thread t arms a fallback timer: it starts the thread new
StepArm(t, r, new) ==
  /\ armed < limits.fallbacks
  /\ armed' = armed + 1
  /\ StepStart(t, r, new)

\* the playback workers alive now
Alive == {thr[u].stamp : u \in {v \in ThreadIds : thr[v].kind \in {"seqrun", "progrun"}}}

\* thread t, in a play_* call, installs its mode and starts the thread new;
\* the playback workers that were alive when the call was made belong to an
\* earlier mode
StepInstall(t, r, new) ==
  /\ \E u \in ThreadIds : thr[u].kind = "free"
  /\ thr' = [u \in ThreadIds |->
               IF u = t THEN Fin(r)
               ELSE IF u = FreeId THEN new
               ELSE IF thr[u].kind \in {"seqrun", "progrun"}
                       /\ thr[u].stamp \in thr[t].seen
                    THEN [thr[u] EXCEPT !.superseded = TRUE]
                    ELSE thr[u]]

\* a bus or HTTP handler begins; raw says that the handler holds the stored
\* object of a sequence and not its list of steps
ReceiveAs(op, pc, arg, loop, raw) ==
  /\ Len(received) < limits.cmds
  /\ \E u \in ThreadIds : thr[u].kind = "free"
  /\ received' = Append(received,
                        [op |-> op, arg |-> arg,
                         alone |-> \A u \in ThreadIds : thr[u].kind # "cmd"])
  /\ fb_fired' = FALSE
  /\ thr' = [thr EXCEPT ![FreeId] =
               [NoThread EXCEPT !.kind = "cmd", !.op = op, !.pc = pc, !.arg = arg,
                                !.loop = loop, !.scene = arg, !.ret = "done",
                                !.raw = raw, !.ctx = "cmd", !.seen = Alive]]
  /\ UNCHANGED << playback, shutdown_requested, last_mqtt_channel_update, timing,
                  env, fallback_config, dmx_followers_settings, senders, armed,
                  stamps, seq_cleared_by >>

Receive(op, pc, arg, loop) == ReceiveAs(op, pc, arg, loop, FALSE)

\* who cleared current_sequence_playback, kept only when it was set
ClearedBy(who) ==
  IF current_sequence_playback # None THEN who ELSE seq_cleared_by


\* ----------------------------------------------------------------- commands
\* POST /api/scenes/<id>/play and dmx/scene/<name>: the scene exists
play_scene_api(s) ==
  /\ s \in DOMAIN scenes
  /\ Receive("play_scene", "ps_stopprog", s, FALSE)

\* POST /api/sequences/<id>/play: steps and loop of the stored sequence
play_sequence_api(q) ==
  /\ q \in DOMAIN sequences
  /\ Receive("play_sequence", "pq_stopprog", q, sequences[q].loop)

\* POST /api/programmable/<id>/play
play_programmable_scene_api(p) ==
  /\ p \in DOMAIN programmable_scenes
  /\ Receive("play_programmable", "pp_setprog", p, programmable_scenes[p].loop)

\* POST /api/playback/stop
stop_playback_api ==
  Receive("stop", "st_seq", "", FALSE)

\* POST /api/playback/pause, run without interruption
pause_playback ==
  /\ ~playback_paused /\ is_playing
  /\ playback_paused' = TRUE
  /\ playback_pause_time' = Some(now)
  /\ UNCHANGED << current_scene_playback, current_sequence_playback,
                  current_programmable_scene_playback, current_step_index,
                  current_step_data, shutdown_requested,
                  last_mqtt_channel_update, total_pause_time, env,
                  fallback_config, dmx_followers_settings, senders, thr,
                  received, fb_fired, armed, stamps, seq_cleared_by >>

\* POST /api/playback/resume, run without interruption
resume_playback ==
  /\ playback_paused /\ is_playing
  /\ playback_paused' = FALSE
  /\ IF playback_pause_time # None /\ playback_pause_time[1] # 0
     THEN /\ total_pause_time' = total_pause_time + (now - playback_pause_time[1])
          /\ playback_pause_time' = None
     ELSE UNCHANGED timing
  /\ UNCHANGED << current_scene_playback, current_sequence_playback,
                  current_programmable_scene_playback, current_step_index,
                  current_step_data, shutdown_requested,
                  last_mqtt_channel_update, env, fallback_config,
                  dmx_followers_settings, senders, thr, received, fb_fired,
                  armed, stamps, seq_cleared_by >>

\* a handler that is not a playback command begins at pc
Handler(op, pc) ==
  [NoThread EXCEPT !.kind = "cmd", !.op = op, !.pc = pc, !.ret = "done",
                   !.ctx = "cmd"]

\* the pause and resume requests whose handlers have not returned
Handling == {u \in ThreadIds : thr[u].kind = "cmd" /\ thr[u].op \in {"pause", "resume"}}

\* POST /api/playback/pause, statement by statement: the test, and
\* self.playback_paused = True
pause_playback_flag ==
  /\ Cardinality(Handling) < MaxHandlers
  /\ ~playback_paused /\ is_playing
  /\ playback_paused' = TRUE
  /\ \E u \in ThreadIds : thr[u].kind = "free"
  /\ thr' = [thr EXCEPT ![FreeId] = Handler("pause", "pa_time")]
  /\ UNCHANGED << current_scene_playback, current_sequence_playback,
                  current_programmable_scene_playback, current_step_index,
                  current_step_data, shutdown_requested,
                  last_mqtt_channel_update, timing, env, fallback_config,
                  dmx_followers_settings, senders, received, fb_fired,
                  armed, stamps, seq_cleared_by >>

\* pause_playback: self.playback_pause_time = time.time()
pause_playback_time(t) ==
  /\ thr[t].pc = "pa_time"
  /\ playback_pause_time' = Some(now)
  /\ Step(t, [thr[t] EXCEPT !.pc = "done"])
  /\ UNCHANGED << playback, shutdown_requested, last_mqtt_channel_update,
                  total_pause_time, env, fallback_config,
                  dmx_followers_settings, senders, received, fb_fired,
                  armed, stamps, seq_cleared_by >>

\* POST /api/playback/resume, statement by statement: the test, and
\* self.playback_paused = False
resume_playback_flag ==
  /\ Cardinality(Handling) < MaxHandlers
  /\ playback_paused /\ is_playing
  /\ playback_paused' = FALSE
  /\ \E u \in ThreadIds : thr[u].kind = "free"
  /\ thr' = [thr EXCEPT ![FreeId] = Handler("resume", "rs_account")]
  /\ UNCHANGED << current_scene_playback, current_sequence_playback,
                  current_programmable_scene_playback, current_step_index,
                  current_step_data, shutdown_requested,
                  last_mqtt_channel_update, timing, env, fallback_config,
                  dmx_followers_settings, senders, received, fb_fired,
                  armed, stamps, seq_cleared_by >>

\* resume_playback: `if self.playback_pause_time:` the pause is added to
\* total_pause_time and playback_pause_time is cleared
resume_playback_account(t) ==
  /\ thr[t].pc = "rs_account"
  /\ IF playback_pause_time # None /\ playback_pause_time[1] # 0
     THEN /\ total_pause_time' = total_pause_time + (now - playback_pause_time[1])
          /\ playback_pause_time' = None
     ELSE UNCHANGED timing
  /\ Step(t, [thr[t] EXCEPT !.pc = "done"])
  /\ UNCHANGED << playback, shutdown_requested, last_mqtt_channel_update,
                  env, fallback_config, dmx_followers_settings, senders,
                  received, fb_fired, armed, stamps, seq_cleared_by >>


\* ------------------------------------------------------------ stop_playback
\* stop_sequence_playback as the earlier variant had it: the sequence is
\* cleared and every sink is blacked out (DMXSender.blackout zeroes the
\* universe and sends it).
stop_playback_sequence_blackout(t) ==
  /\ thr[t].pc = "st_seq"
  /\ IF current_sequence_playback # None
     THEN /\ current_sequence_playback' = None
          /\ current_scene_playback' = None
          /\ current_step_index' = 0
          /\ current_step_data' = None
          /\ playback_paused' = FALSE
          /\ playback_pause_time' = None
          /\ total_pause_time' = 0
          /\ seq_cleared_by' = "stop"
          /\ senders' = [n \in DOMAIN senders |->
                           IF senders[n].active
                           THEN [senders[n] EXCEPT
                                   !.universe_data = [c \in Channels |-> 0],
                                   !.wire = [c \in Channels |-> 0]]
                           ELSE senders[n]]
          /\ Step(t, [thr[t] EXCEPT !.pc = "st_prog", !.stopped = TRUE])
     ELSE /\ UNCHANGED << playback, seq_cleared_by, senders, timing >>
          /\ Step(t, [thr[t] EXCEPT !.pc = "st_prog"])
  /\ UNCHANGED << current_programmable_scene_playback, shutdown_requested,
                  last_mqtt_channel_update, env, fallback_config,
                  dmx_followers_settings, received, fb_fired, armed, stamps >>

\* stop_playback: `if self.current_sequence_playback: self.stop_sequence_playback()`
\* stop_sequence_playback clears the sequence and the scene slot.
stop_playback_sequence(t) ==
  /\ thr[t].pc = "st_seq"
  /\ IF current_sequence_playback # None
     THEN /\ current_sequence_playback' = None
          /\ current_scene_playback' = None
          /\ current_step_index' = 0
          /\ current_step_data' = None
          /\ playback_paused' = FALSE
          /\ playback_pause_time' = None
          /\ total_pause_time' = 0
          /\ seq_cleared_by' = "stop"
          /\ Step(t, [thr[t] EXCEPT !.pc = "st_prog", !.stopped = TRUE])
     ELSE /\ UNCHANGED << playback, seq_cleared_by, timing >>
          /\ Step(t, [thr[t] EXCEPT !.pc = "st_prog"])
  /\ UNCHANGED << current_programmable_scene_playback, shutdown_requested,
                  last_mqtt_channel_update, env, fallback_config,
                  dmx_followers_settings, senders, received, fb_fired, armed,
                  stamps >>

\* the effect of stop_programmable_scene_playback() on the playback state
stop_programmable_scene_playback ==
  IF current_programmable_scene_playback # None
  THEN /\ current_programmable_scene_playback' = None
       /\ playback_paused' = FALSE
       /\ playback_pause_time' = None
       /\ total_pause_time' = 0
  ELSE UNCHANGED << current_programmable_scene_playback, playback_paused,
                    timing >>

\* stop_playback: `if self.current_programmable_scene_playback: ...`
stop_playback_programmable(t) ==
  /\ thr[t].pc = "st_prog"
  /\ stop_programmable_scene_playback
  /\ Step(t, [thr[t] EXCEPT !.pc = "st_scene",
                !.stopped = @ \/ current_programmable_scene_playback # None])
  /\ UNCHANGED << current_scene_playback, current_sequence_playback,
                  current_step_index, current_step_data, shutdown_requested,
                  last_mqtt_channel_update, env, fallback_config,
                  dmx_followers_settings, senders, received, fb_fired, armed,
                  stamps, seq_cleared_by >>

\* stop_playback: `if self.current_scene_playback: self.current_scene_playback = None`
stop_playback_scene(t) ==
  /\ thr[t].pc = "st_scene"
  /\ current_scene_playback' = None
  /\ Step(t, [thr[t] EXCEPT !.pc = "done",
                !.stopped = @ \/ current_scene_playback # None])
  /\ UNCHANGED << current_sequence_playback, current_programmable_scene_playback,
                  current_step_index, current_step_data, playback_paused,
                  shutdown_requested, last_mqtt_channel_update, timing, env,
                  fallback_config, dmx_followers_settings, senders, received,
                  fb_fired, armed, stamps, seq_cleared_by >>

\* --------------------------------------------------------------- play_scene
\* The caller t is a handler, a sequence worker at a scene step, or a
\* fallback timer; thr[t].scene is scene_name, thr[t].ret where t goes on.

\* play_scene: stop_programmable_scene_playback(), then the lookup
play_scene_stop_programmable(t) ==
  /\ thr[t].pc = "ps_stopprog"
  /\ stop_programmable_scene_playback
  /\ Step(t, [thr[t] EXCEPT !.pc = IF thr[t].scene \in DOMAIN scenes
                                   THEN "ps_setscene" ELSE thr[t].ret])
  /\ UNCHANGED << current_scene_playback, current_sequence_playback,
                  current_step_index, current_step_data, shutdown_requested,
                  last_mqtt_channel_update, env, fallback_config,
                  dmx_followers_settings, senders, received, fb_fired, armed,
                  stamps, seq_cleared_by >>

\* play_scene: self.current_scene_playback = {...}
play_scene_set_scene(t) ==
  /\ thr[t].pc = "ps_setscene"
  /\ current_scene_playback' = Some(thr[t].scene)
  /\ Step(t, [thr[t] EXCEPT !.pc = "ps_clearseq"])
  /\ UNCHANGED << current_sequence_playback, current_programmable_scene_playback,
                  current_step_index, current_step_data, playback_paused,
                  shutdown_requested, last_mqtt_channel_update, timing, env,
                  fallback_config, dmx_followers_settings, senders, received,
                  fb_fired, armed, stamps, seq_cleared_by >>

\* the thread of play_scene.run
SceneThread(caller) ==
  [NoThread EXCEPT !.kind = "scenerun", !.pc = "sr_apply", !.arg = caller.scene,
                   !.ctx = caller.kind]

\* play_scene: self.current_sequence_playback = None, the timing attributes,
\* and threading.Thread(target=run).start()
play_scene_start(t) ==
  /\ thr[t].pc = "ps_clearseq"
  /\ current_sequence_playback' = None
  /\ playback_paused' = FALSE
  /\ total_pause_time' = 0
  /\ UNCHANGED playback_pause_time
  /\ seq_cleared_by' = ClearedBy(IF thr[t].kind = "seqrun" THEN "self" ELSE "play")
  /\ IF thr[t].kind = "seqrun"
     THEN StepStart(t, [thr[t] EXCEPT !.pc = thr[t].ret, !.log = Append(@, thr[t].i)],
                    SceneThread(thr[t]))
     ELSE StepInstall(t, [thr[t] EXCEPT !.pc = thr[t].ret], SceneThread(thr[t]))
  /\ UNCHANGED << current_scene_playback, current_programmable_scene_playback,
                  current_step_index, current_step_data, shutdown_requested,
                  last_mqtt_channel_update, env, fallback_config,
                  dmx_followers_settings, senders, received, fb_fired, armed,
                  stamps >>

\* play_scene.run: the channels of the scene, set_channels_with_followers, send
play_scene_run(t) ==
  /\ thr[t].pc = "sr_apply"
  /\ senders' = LET set == set_channels_with_followers(senders, SceneChannels(scenes[thr[t].arg]))
                IN IF auto_send THEN DMXManager_send(set) ELSE set
  /\ Step(t, [thr[t] EXCEPT !.pc = "sr_fallback"])
  /\ UNCHANGED << playback, shutdown_requested, last_mqtt_channel_update, timing,
                  env, fallback_config, dmx_followers_settings, received,
                  fb_fired, armed, stamps, seq_cleared_by >>

\* a run_*_fallback thread, asleep for its delay
FallbackThread(trig, id, armer) ==
  [NoThread EXCEPT !.kind = "fb", !.op = trig, !.pc = "fb_sleep", !.arg = id,
                   !.scene = id, !.ret = "done", !.ctx = armer.ctx,
                   !.cancel = armer.cancel, !.at = Len(received)]

\* play_scene.run ending as a scene that completes would: the scene slot is
\* cleared when the scene was not played by a sequence step
trigger_scene_fallback_completes(t) ==
  /\ thr[t].pc = "sr_fallback"
  /\ current_scene_playback' =
        IF thr[t].ctx = "seqrun" THEN current_scene_playback ELSE None
  /\ IF fallback_config.scene_fallback.enabled
        /\ fallback_config.scene_fallback.scene_id # ""
     THEN StepArm(t, [thr[t] EXCEPT !.pc = "done"],
                  FallbackThread("scene", fallback_config.scene_fallback.scene_id, thr[t]))
     ELSE Step(t, [thr[t] EXCEPT !.pc = "done"]) /\ UNCHANGED armed
  /\ UNCHANGED << current_sequence_playback, current_programmable_scene_playback,
                  current_step_index, current_step_data, playback_paused,
                  shutdown_requested, last_mqtt_channel_update, timing, env,
                  fallback_config, dmx_followers_settings, senders, received,
                  fb_fired, seq_cleared_by, stamps >>

\* trigger_scene_fallback gated as trigger_fallback is, by either slot: the
\* timer is armed only when the sequence slot is disabled
trigger_scene_fallback_either_slot(t) ==
  /\ thr[t].pc = "sr_fallback"
  /\ IF fallback_config.scene_fallback.enabled
        /\ ~fallback_config.sequence_fallback.enabled
        /\ fallback_config.scene_fallback.scene_id # ""
     THEN StepArm(t, [thr[t] EXCEPT !.pc = "done"],
                  FallbackThread("scene", fallback_config.scene_fallback.scene_id, thr[t]))
     ELSE Step(t, [thr[t] EXCEPT !.pc = "done"]) /\ UNCHANGED armed
  /\ UNCHANGED << playback, shutdown_requested, last_mqtt_channel_update,
                  timing, env, fallback_config, dmx_followers_settings,
                  senders, received, fb_fired, seq_cleared_by, stamps >>

\* play_scene.run: self.trigger_scene_fallback(scene_name)
trigger_scene_fallback(t) ==
  /\ thr[t].pc = "sr_fallback"
  /\ IF fallback_config.scene_fallback.enabled
        /\ fallback_config.scene_fallback.scene_id # ""
     THEN StepArm(t, [thr[t] EXCEPT !.pc = "done"],
                  FallbackThread("scene", fallback_config.scene_fallback.scene_id, thr[t]))
     ELSE Step(t, [thr[t] EXCEPT !.pc = "done"]) /\ UNCHANGED armed
  /\ UNCHANGED << playback, shutdown_requested, last_mqtt_channel_update, timing,
                  env, fallback_config, dmx_followers_settings, senders,
                  received, fb_fired, seq_cleared_by, stamps >>

\* run_scene_fallback / run_sequence_fallback / run_fallback after the sleep:
\* play the scene when it exists; the legacy fallback of type sequence calls
\* play_sequence(self.config['sequences'][fallback_id]) with the stored object
run_fallback(t) ==
  /\ thr[t].pc = "fb_sleep"
  /\ fb_fired' = TRUE
  /\ IF thr[t].op = "legacy_sequence"
     THEN Step(t, [thr[t] EXCEPT !.pc = IF thr[t].arg \in DOMAIN sequences
                                        THEN "pq_stopprog" ELSE "done",
                                 !.raw = TRUE, !.seen = Alive])
     ELSE Step(t, [thr[t] EXCEPT !.pc = IF thr[t].arg \in DOMAIN scenes
                                        THEN "ps_stopprog" ELSE "done",
                                 !.seen = Alive])
  /\ UNCHANGED << playback, shutdown_requested, last_mqtt_channel_update, timing,
                  env, fallback_config, dmx_followers_settings, senders,
                  received, armed, stamps, seq_cleared_by >>


\* ------------------------------------------------------------ play_sequence
\* play_sequence: stop_programmable_scene_playback()
play_sequence_stop_programmable(t) ==
  /\ thr[t].pc = "pq_stopprog"
  /\ stop_programmable_scene_playback
  /\ Step(t, [thr[t] EXCEPT !.pc = "pq_setseq"])
  /\ UNCHANGED << current_scene_playback, current_sequence_playback,
                  current_step_index, current_step_data, shutdown_requested,
                  last_mqtt_channel_update, env, fallback_config,
                  dmx_followers_settings, senders, received, fb_fired, armed,
                  stamps, seq_cleared_by >>

\* play_sequence: self.current_sequence_playback = {...}
play_sequence_set_sequence(t) ==
  /\ thr[t].pc = "pq_setseq"
  /\ current_sequence_playback' = Some([sequence |-> thr[t].arg, loop |-> thr[t].loop])
  /\ seq_cleared_by' = "none"
  /\ Step(t, [thr[t] EXCEPT !.pc = "pq_install"])
  /\ UNCHANGED << current_scene_playback, current_programmable_scene_playback,
                  current_step_index, current_step_data, playback_paused,
                  shutdown_requested, last_mqtt_channel_update, timing, env,
                  fallback_config, dmx_followers_settings, senders, received,
                  fb_fired, armed, stamps >>

\* play_sequence: the scene slot, the step and timing attributes, and
\* threading.Thread(target=run).start()
play_sequence_start(t) ==
  /\ thr[t].pc = "pq_install"
  /\ current_scene_playback' = None
  /\ current_step_index' = 0
  /\ current_step_data' = None
  /\ playback_paused' = FALSE
  /\ total_pause_time' = 0
  /\ UNCHANGED playback_pause_time
  /\ StepInstall(t, [thr[t] EXCEPT !.pc = thr[t].ret],
       [NoThread EXCEPT !.kind = "seqrun", !.pc = "sq_while", !.arg = thr[t].arg,
                        !.loop = thr[t].loop, !.raw = thr[t].raw, !.ctx = "seqrun",
                        !.cancel = "complete", !.stamp = stamps + 1])
  /\ stamps' = stamps + 1
  /\ UNCHANGED << current_sequence_playback, current_programmable_scene_playback,
                  shutdown_requested, last_mqtt_channel_update, env,
                  fallback_config, dmx_followers_settings, senders, received,
                  seq_cleared_by, fb_fired, armed >>

StepsOf(t) == sequences[thr[t].arg].steps

\* where a worker goes when it leaves the for loop: `if not loop: break`
AfterFor(t) == IF thr[t].loop THEN "sq_while" ELSE "sq_cleanup"

\* play_sequence.run: `while not self.shutdown_requested and
\* self.current_sequence_playback:` and the start of the for loop
sequence_run_while(t) ==
  /\ thr[t].pc = "sq_while"
  /\ IF shutdown_requested \/ current_sequence_playback = None
     THEN Step(t, [thr[t] EXCEPT !.pc = "sq_cleanup", !.broke = TRUE,
                                 !.cancel = seq_cleared_by])
     ELSE IF Len(StepsOf(t)) = 0
          THEN Step(t, [thr[t] EXCEPT !.pc = AfterFor(t), !.log = <<>>,
                                      !.broke = FALSE, !.cancel = "complete"])
          ELSE Step(t, [thr[t] EXCEPT !.pc = "sq_step", !.i = 0, !.log = <<>>,
                                      !.broke = FALSE, !.cancel = "complete"])
  /\ UNCHANGED << playback, shutdown_requested, last_mqtt_channel_update, timing,
                  env, fallback_config, dmx_followers_settings, senders,
                  received, fb_fired, armed, stamps, seq_cleared_by >>

\* play_sequence.run, top of the for body: the stop test, then
\* current_step_index and current_step_data, then the kind of the step.
\* A sequence handed over as the stored object is iterated by its keys, and
\* step.get raises while current_step_data is built: the thread dies.
sequence_run_step(t) ==
  /\ thr[t].pc = "sq_step"
  /\ LET step == StepsOf(t)[thr[t].i + 1] IN
     IF shutdown_requested \/ current_sequence_playback = None
     THEN /\ Step(t, [thr[t] EXCEPT !.pc = AfterFor(t), !.broke = TRUE,
                                    !.cancel = seq_cleared_by])
          /\ UNCHANGED << current_step_index, current_step_data >>
     ELSE IF thr[t].raw
     THEN /\ current_step_index' = thr[t].i
          /\ UNCHANGED current_step_data
          /\ Step(t, [thr[t] EXCEPT !.pc = "done", !.cancel = "error"])
     ELSE /\ current_step_index' = thr[t].i
          /\ current_step_data' = Some([duration |-> step.duration])
          /\ Step(t, [thr[t] EXCEPT
                !.pc = IF step.kind = "scene"
                       THEN IF step.scene_name \in DOMAIN scenes
                            THEN "ps_stopprog" ELSE "sq_wait"
                       ELSE "sq_apply",
                !.scene = step.scene_name,
                !.ret = "sq_wait"])
  /\ UNCHANGED << current_scene_playback, current_sequence_playback,
                  current_programmable_scene_playback, playback_paused,
                  shutdown_requested, last_mqtt_channel_update, timing, env,
                  fallback_config, dmx_followers_settings, senders, received,
                  fb_fired, armed, stamps, seq_cleared_by >>

\* play_sequence.run, direct step: set_channels_with_followers(dmx_channels), send
sequence_run_apply(t) ==
  /\ thr[t].pc = "sq_apply"
  /\ senders' = LET set == set_channels_with_followers(senders, StepsOf(t)[thr[t].i + 1].dmx)
                IN IF auto_play THEN DMXManager_send(set) ELSE set
  /\ Step(t, [thr[t] EXCEPT !.pc = "sq_wait", !.log = Append(@, thr[t].i)])
  /\ UNCHANGED << playback, shutdown_requested, last_mqtt_channel_update, timing,
                  env, fallback_config, dmx_followers_settings, received,
                  fb_fired, armed, stamps, seq_cleared_by >>

\* play_sequence.run: the wait loop has run out or was left by its stop
\* test; `if self.shutdown_requested or not self.current_sequence_playback:
\* break`, else the next step
sequence_run_wait(t) ==
  /\ thr[t].pc = "sq_wait"
  /\ IF shutdown_requested \/ current_sequence_playback = None
     THEN Step(t, [thr[t] EXCEPT !.pc = AfterFor(t), !.broke = TRUE,
                                 !.cancel = seq_cleared_by])
     ELSE IF thr[t].i + 1 < Len(StepsOf(t))
          THEN Step(t, [thr[t] EXCEPT !.pc = "sq_step", !.i = @ + 1])
          ELSE Step(t, [thr[t] EXCEPT !.pc = AfterFor(t)])
  /\ UNCHANGED << playback, shutdown_requested, last_mqtt_channel_update, timing,
                  env, fallback_config, dmx_followers_settings, senders,
                  received, fb_fired, armed, stamps, seq_cleared_by >>

\* play_sequence.run after the while loop: the three attributes are cleared
sequence_run_cleanup(t) ==
  /\ thr[t].pc = "sq_cleanup"
  /\ current_sequence_playback' = None
  /\ current_step_index' = 0
  /\ current_step_data' = None
  /\ seq_cleared_by' = ClearedBy("exit")
  /\ Step(t, [thr[t] EXCEPT !.pc = IF thr[t].loop THEN "done" ELSE "sq_fallback"])
  /\ UNCHANGED << current_scene_playback, current_programmable_scene_playback,
                  playback_paused, shutdown_requested, last_mqtt_channel_update,
                  timing, env, fallback_config, dmx_followers_settings, senders,
                  received, fb_fired, armed, stamps >>

\* trigger_fallback(): the legacy fallback is armed when neither new slot is
\* enabled, the legacy one is enabled and has an id
LegacyArmed ==
  /\ ~fallback_config.scene_fallback.enabled
  /\ ~fallback_config.sequence_fallback.enabled
  /\ fallback_config.enabled
  /\ fallback_config.id # ""

LegacyThread(armer) ==
  FallbackThread(IF fallback_config.type = "sequence" THEN "legacy_sequence"
                 ELSE "legacy", fallback_config.id, armer)

\* play_sequence.run: `if not loop:` trigger_fallback() and
\* trigger_sequence_fallback()
sequence_run_fallback(t) ==
  /\ thr[t].pc = "sq_fallback"
  /\ IF LegacyArmed
     THEN StepArm(t, [thr[t] EXCEPT !.pc = "done"], LegacyThread(thr[t]))
     ELSE IF fallback_config.sequence_fallback.enabled
     THEN StepArm(t, [thr[t] EXCEPT !.pc = "done"],
                  FallbackThread("sequence",
                                 fallback_config.sequence_fallback.scene_id, thr[t]))
     ELSE Step(t, [thr[t] EXCEPT !.pc = "done"]) /\ UNCHANGED armed
  /\ UNCHANGED << playback, shutdown_requested, last_mqtt_channel_update, timing,
                  env, fallback_config, dmx_followers_settings, senders,
                  received, fb_fired, seq_cleared_by, stamps >>


\* -------------------------------------------------- play_programmable_scene
\* play_programmable_scene: self.current_programmable_scene_playback = {...}
play_programmable_set_scene(t) ==
  /\ thr[t].pc = "pp_setprog"
  /\ IF thr[t].arg \in DOMAIN programmable_scenes
     THEN /\ current_programmable_scene_playback' = Some(thr[t].arg)
          /\ Step(t, [thr[t] EXCEPT !.pc = "pp_clearseq"])
     ELSE /\ UNCHANGED current_programmable_scene_playback
          /\ Step(t, [thr[t] EXCEPT !.pc = thr[t].ret])
  /\ UNCHANGED << current_scene_playback, current_sequence_playback,
                  current_step_index, current_step_data, playback_paused,
                  shutdown_requested, last_mqtt_channel_update, timing, env,
                  fallback_config, dmx_followers_settings, senders, received,
                  fb_fired, armed, stamps, seq_cleared_by >>

\* play_programmable_scene: self.current_sequence_playback = None
play_programmable_clear_sequence(t) ==
  /\ thr[t].pc = "pp_clearseq"
  /\ current_sequence_playback' = None
  /\ seq_cleared_by' = ClearedBy("play")
  /\ Step(t, [thr[t] EXCEPT !.pc = "pp_install"])
  /\ UNCHANGED << current_scene_playback, current_programmable_scene_playback,
                  current_step_index, current_step_data, playback_paused,
                  shutdown_requested, last_mqtt_channel_update, timing, env,
                  fallback_config, dmx_followers_settings, senders, received,
                  fb_fired, armed, stamps >>

\* play_programmable_scene: the scene slot, the timing attributes, and
\* threading.Thread(target=run).start()
play_programmable_start(t) ==
  /\ thr[t].pc = "pp_install"
  /\ current_scene_playback' = None
  /\ playback_paused' = FALSE
  /\ total_pause_time' = 0
  /\ UNCHANGED playback_pause_time
  /\ StepInstall(t, [thr[t] EXCEPT !.pc = thr[t].ret],
       [NoThread EXCEPT !.kind = "progrun", !.pc = "pr_while", !.arg = thr[t].arg,
                        !.loop = thr[t].loop, !.ctx = "progrun",
                        !.cancel = "complete", !.stamp = stamps + 1,
                        !.start = now, !.base = active])
  /\ stamps' = stamps + 1
  /\ UNCHANGED << current_sequence_playback, current_programmable_scene_playback,
                  current_step_index, current_step_data, shutdown_requested,
                  last_mqtt_channel_update, env, fallback_config,
                  dmx_followers_settings, senders, received, seq_cleared_by,
                  fb_fired, armed >>

\* play_programmable_scene.run, top of the loop: the stop test, the pause
\* test (sleep and continue), the duration test of a scene that does not
\* loop, and the scene_time tm of the frame that is evaluated next.
\* `current_time % duration` of a looping scene raises when the duration is
\* 0, and nothing in run catches it: the thread dies where it stands.
programmable_run_while(t, tm, expired) ==
  /\ thr[t].pc = "pr_while"
  /\ IF shutdown_requested \/ current_programmable_scene_playback = None
     THEN Step(t, [thr[t] EXCEPT !.pc = "pr_cleanup", !.broke = TRUE])
     ELSE /\ ~playback_paused
          /\ IF ~thr[t].loop /\ expired
             THEN Step(t, [thr[t] EXCEPT !.pc = "pr_cleanup"])
             ELSE IF thr[t].loop /\ programmable_scenes[thr[t].arg].duration = 0
             THEN Step(t, [thr[t] EXCEPT !.pc = "done", !.cancel = "error"])
             ELSE Step(t, [thr[t] EXCEPT !.pc = "pr_frame", !.i = tm])
  /\ UNCHANGED << playback, shutdown_requested, last_mqtt_channel_update, timing,
                  env, fallback_config, dmx_followers_settings, senders,
                  received, fb_fired, armed, stamps, seq_cleared_by >>

\* the channel map of one frame: every expression evaluated at scene_time
FrameChannels(p, tm) ==
  LET ex == programmable_scenes[p].expressions
  IN [c \in DOMAIN ex |-> evaluate_expression(ex[c], tm, c)]

\* `channel not in previous_channels or abs(previous - value) > 0.1`
ChannelsChanged(prev, channels) ==
  \E c \in DOMAIN channels : c \notin DOMAIN prev \/ prev[c] # channels[c]

\* play_programmable_scene.run: evaluate, and when a value changed
\* set_channels_with_followers, send, previous_channels.update
programmable_run_frame(t) ==
  /\ thr[t].pc = "pr_frame"
  /\ LET channels == FrameChannels(thr[t].arg, thr[t].i) IN
     IF ChannelsChanged(thr[t].prev, channels) /\ DOMAIN channels # {}
     THEN /\ senders' = DMXManager_send(set_channels_with_followers(senders, channels))
          /\ Step(t, [thr[t] EXCEPT !.pc = "pr_while", !.i = 0,
                        !.prev = [c \in DOMAIN thr[t].prev \cup DOMAIN channels |->
                                    IF c \in DOMAIN channels THEN channels[c]
                                    ELSE thr[t].prev[c]]])
     ELSE /\ UNCHANGED senders
          /\ Step(t, [thr[t] EXCEPT !.pc = "pr_while", !.i = 0])
  /\ UNCHANGED << playback, shutdown_requested, last_mqtt_channel_update, timing,
                  env, fallback_config, dmx_followers_settings, received,
                  fb_fired, armed, stamps, seq_cleared_by >>

\* play_programmable_scene.run after the loop: the slot is cleared
programmable_run_cleanup(t) ==
  /\ thr[t].pc = "pr_cleanup"
  /\ current_programmable_scene_playback' = None
  /\ Step(t, [thr[t] EXCEPT !.pc = IF thr[t].loop THEN "done" ELSE "pr_fallback"])
  /\ UNCHANGED << current_scene_playback, current_sequence_playback,
                  current_step_index, current_step_data, playback_paused,
                  shutdown_requested, last_mqtt_channel_update, timing, env,
                  fallback_config, dmx_followers_settings, senders, received,
                  fb_fired, armed, stamps, seq_cleared_by >>

\* play_programmable_scene.run: `if not loop: self.trigger_fallback()`
programmable_run_fallback(t) ==
  /\ thr[t].pc = "pr_fallback"
  /\ IF LegacyArmed
     THEN StepArm(t, [thr[t] EXCEPT !.pc = "done"], LegacyThread(thr[t]))
     ELSE Step(t, [thr[t] EXCEPT !.pc = "done"]) /\ UNCHANGED armed
  /\ UNCHANGED << playback, shutdown_requested, last_mqtt_channel_update, timing,
                  env, fallback_config, dmx_followers_settings, senders,
                  received, fb_fired, seq_cleared_by, stamps >>

\* -------------------------------------------------------------- the engine
\* MQTTDMXSequencer.__init__: nothing plays; setup_dmx_senders has
\* registered the default test sender, its universe all zero.
\* setup_dmx_senders with no sender configured: the test sender default_test
DefaultSenders ==
  ( "default_test" :> [active |-> TRUE, test |-> TRUE, universe |-> 1,
                       universe_data |-> [c \in Channels |-> 0],
                       wire |-> [c \in Channels |-> 0]] )

\* the engine with the senders snd and the threads th
ConstructWith(lim, fallbacks, followers, snd, th) ==
  /\ current_scene_playback = None
  /\ current_sequence_playback = None
  /\ current_programmable_scene_playback = None
  /\ current_step_index = 0
  /\ current_step_data = None
  /\ playback_paused = FALSE
  /\ last_mqtt_channel_update = None
  /\ playback_pause_time = None
  /\ total_pause_time = 0
  /\ now = StartTime
  /\ active = 0
  /\ limits = lim
  /\ mqtt = [mqtt_connected |-> FALSE, subscriptions_done |-> FALSE,
             mqtt_reconnect_attempts |-> 0,
             current_mqtt_subscriptions |-> {},
             config_sequences |-> DOMAIN sequences,
             session |-> {}, link |-> "connecting"]
  /\ call = None
  /\ returned = <<>>
  /\ dmx_retransmission_settings = [enabled |-> FALSE, interval |-> DefaultInterval]
  /\ dmx_retransmission_stop = FALSE
  /\ dmx_retransmission_thread = None
  /\ shutdown_requested = FALSE
  /\ fallback_config \in fallbacks
  /\ dmx_followers_settings \in followers
  /\ senders = snd
  /\ thr = th
  /\ received = <<>>
  /\ fb_fired = FALSE
  /\ armed = 0
  /\ stamps = 0
  /\ seq_cleared_by = "none"

Construct(lim, fallbacks, followers) ==
  ConstructWith(lim, fallbacks, followers, DefaultSenders,
                [t \in ThreadIds |-> NoThread])

Init ==
  Construct([cmds |-> MaxCmds, fallbacks |-> MaxFallbacks], FallbackConfigs,
            {FollowersOff})

Next ==
  \/ \E s \in DOMAIN scenes : play_scene_api(s)
  \/ \E q \in DOMAIN sequences : play_sequence_api(q)
  \/ \E p \in Regular : play_programmable_scene_api(p)
  \/ stop_playback_api
  \/ pause_playback
  \/ resume_playback
  \/ \E t \in ThreadIds :
       \/ stop_playback_sequence(t)
       \/ stop_playback_programmable(t)
       \/ stop_playback_scene(t)
       \/ play_scene_stop_programmable(t)
       \/ play_scene_set_scene(t)
       \/ play_scene_start(t)
       \/ play_scene_run(t)
       \/ trigger_scene_fallback(t)
       \/ run_fallback(t)
       \/ play_sequence_stop_programmable(t)
       \/ play_sequence_set_sequence(t)
       \/ play_sequence_start(t)
       \/ sequence_run_while(t)
       \/ sequence_run_step(t)
       \/ sequence_run_apply(t)
       \/ sequence_run_wait(t)
       \/ sequence_run_cleanup(t)
       \/ sequence_run_fallback(t)
       \/ play_programmable_set_scene(t)
       \/ play_programmable_clear_sequence(t)
       \/ play_programmable_start(t)
       \/ \E tm \in Times, expired \in BOOLEAN : programmable_run_while(t, tm, expired)
       \/ programmable_run_frame(t)
       \/ programmable_run_cleanup(t)
       \/ programmable_run_fallback(t)

Spec == Init /\ [][Next]_vars

\* ------------------------------------------------------------- the clock
\* time passes; the history counts it while playback is not paused
Tick ==
  /\ now < MaxNow
  /\ now' = now + 1
  /\ active' = IF playback_paused THEN active ELSE active + 1
  /\ UNCHANGED << playback, shutdown_requested, last_mqtt_channel_update,
                  timing, limits, mqtt, call, returned, retransmission,
                  fallback_config, dmx_followers_settings,
                  senders, thr, received, fb_fired, armed, stamps,
                  seq_cleared_by >>

\* play_programmable_scene.run:
\* current_time = time.time() - start_time - self.total_pause_time
EffectiveTime(t) == now - thr[t].start - total_pause_time

\* play_programmable_scene.run, top of the loop, with the clock read:
\* `if not loop and current_time >= duration: break` and
\* scene_time = current_time % duration if loop else current_time
programmable_run_clock(t) ==
  LET current_time == EffectiveTime(t)
      duration == programmable_scenes[thr[t].arg].duration
  IN programmable_run_while(t,
       IF thr[t].loop THEN current_time % duration ELSE current_time,
       current_time >= duration)

\* one programmable scene is played, paused and resumed while time passes
InitClock ==
  Construct([cmds |-> 1, fallbacks |-> MaxFallbacks], {FallbackOff},
            {FollowersOff})

NextClock ==
  \/ \E p \in Regular : play_programmable_scene_api(p)
  \/ pause_playback_flag
  \/ resume_playback_flag
  \/ Tick
  \/ \E t \in ThreadIds :
       \/ pause_playback_time(t)
       \/ resume_playback_account(t)
       \/ play_programmable_set_scene(t)
       \/ play_programmable_clear_sequence(t)
       \/ play_programmable_start(t)
       \/ programmable_run_clock(t)
       \/ programmable_run_frame(t)
       \/ programmable_run_cleanup(t)
       \/ programmable_run_fallback(t)

SpecClock == InitClock /\ [][NextClock]_vars

\* ------------------------------------------------------ channel requests
\* the last segment of a topic dmx/set/channel/<N>, and the payloads
ChannelTexts == {"0", "1", "2", "3", "one"}
PayloadTexts == {"-1", "0", "200", "256", "1.5", " 2 "}

\* int(text): blanks around the digits are ignored, anything that is no
\* integer literal raises ValueError (None here)
ParseInt(text) ==
  CASE text = "-1"  -> Some(0 - 1)
    [] text = "0"   -> Some(0)
    [] text = "1"   -> Some(1)
    [] text = "2"   -> Some(2)
    [] text = " 2 " -> Some(2)
    [] text = "3"   -> Some(3)
    [] text = "200" -> Some(200)
    [] text = "256" -> Some(256)
    [] OTHER        -> None

\* the values of the body of POST /api/dmx/channel/<N> and of the entries of
\* POST /api/dmx/all
BodyValues == {0 - 1, 0, 200, 256, Fraction(1)}
ListValues == {0, 200, 256, Fraction(1)}

\* a channel request is received: it is noted, and when it goes on the
\* thread new handles the rest of it
Request(op, arg, goes_on, new) ==
  /\ Len(received) < limits.cmds
  /\ received' = Append(received,
                        [op |-> op, arg |-> arg,
                         alone |-> \A u \in ThreadIds : thr[u].kind # "cmd"])
  /\ IF goes_on
     THEN /\ \E u \in ThreadIds : thr[u].kind = "free"
          /\ thr' = [thr EXCEPT ![FreeId] = new]
     ELSE UNCHANGED thr
  /\ UNCHANGED << playback, shutdown_requested, last_mqtt_channel_update,
                  timing, env, fallback_config, dmx_followers_settings,
                  fb_fired, armed, stamps, seq_cleared_by >>

\* handle_channel_control without the test of the value's range
handle_channel_control_any_value(topic, payload) ==
  LET channel == ParseInt(topic)
      value == ParseInt(payload)
      valid == /\ channel # None /\ value # None
               /\ channel[1] \in Channels
  IN /\ Request("dmx/set/channel", <<topic, payload>>, valid,
                [Handler("dmx/set/channel", "ch_send") EXCEPT
                   !.channel = channel[1], !.value = value[1]])
     /\ senders' = IF valid
                   THEN DMXManager_set_channel(senders, channel[1], value[1])
                   ELSE senders

\* handle_channel_control(topic, payload): both are parsed; in range, the
\* channel is set (the send and the note for the frontend follow); a failed
\* parse or a value out of range is printed and nothing else
handle_channel_control(topic, payload) ==
  LET channel == ParseInt(topic)
      value == ParseInt(payload)
      valid == /\ channel # None /\ value # None
               /\ channel[1] \in Channels
               /\ 0 <= value[1] /\ value[1] <= MaxValue
  IN /\ Request("dmx/set/channel", <<topic, payload>>, valid,
                [Handler("dmx/set/channel", "ch_send") EXCEPT
                   !.channel = channel[1], !.value = value[1]])
     /\ senders' = IF valid
                   THEN DMXManager_set_channel(senders, channel[1], value[1])
                   ELSE senders

\* POST /api/dmx/channel/<int:channel> with body {"value": value}: 400
\* unless channel is in 1..512 and value is an int in 0..255
set_channel(channel, value) ==
  LET valid == /\ channel \in Channels
               /\ IsInteger(value) /\ 0 <= value /\ value <= MaxValue
  IN /\ Request("api/dmx/channel", <<channel, value>>, valid,
                [Handler("api/dmx/channel", "ch_send") EXCEPT
                   !.channel = channel, !.value = value])
     /\ senders' = IF valid
                   THEN DMXManager_set_channel(senders, channel, value)
                   ELSE senders

\* set_channel and handle_channel_control: self.dmx_manager.send()
set_channel_send(t) ==
  /\ thr[t].pc = "ch_send"
  /\ senders' = DMXManager_send(senders)
  /\ Step(t, [thr[t] EXCEPT !.pc = "ch_track"])
  /\ UNCHANGED << playback, shutdown_requested, last_mqtt_channel_update,
                  timing, env, fallback_config, dmx_followers_settings,
                  received, fb_fired, armed, stamps, seq_cleared_by >>

\* set_channel and handle_channel_control:
\* self.last_mqtt_channel_update = {'channel': channel, 'value': value}
set_channel_track(t) ==
  /\ thr[t].pc = "ch_track"
  /\ last_mqtt_channel_update' =
       Some([channel |-> thr[t].channel, value |-> thr[t].value])
  /\ Step(t, [thr[t] EXCEPT !.pc = "done"])
  /\ UNCHANGED << playback, shutdown_requested, timing, env, fallback_config,
                  dmx_followers_settings, senders, received, fb_fired, armed,
                  stamps, seq_cleared_by >>

\* POST /api/dmx/all with body {"channels": channels}, a list
set_all_channels(channels) ==
  /\ Request("api/dmx/all", channels, TRUE,
             [Handler("api/dmx/all", "all_set") EXCEPT
                !.channels = channels, !.i = 1])
  /\ UNCHANGED senders

\* set_all_channels, one turn of `for i, value in enumerate(channels)`:
\* `if 0 <= value <= 255: self.dmx_manager.set_channel(i + 1, value)`
set_all_channels_set(t) ==
  /\ thr[t].pc = "all_set"
  /\ senders' = IF InRange(thr[t].channels[thr[t].i])
                THEN DMXManager_set_channel(senders, thr[t].i,
                                            thr[t].channels[thr[t].i])
                ELSE senders
  /\ Step(t, [thr[t] EXCEPT !.i = @ + 1,
                            !.pc = IF thr[t].i < Len(thr[t].channels)
                                   THEN "all_set" ELSE "all_send"])
  /\ UNCHANGED << playback, shutdown_requested, last_mqtt_channel_update,
                  timing, env, fallback_config, dmx_followers_settings,
                  received, fb_fired, armed, stamps, seq_cleared_by >>

\* set_all_channels: self.dmx_manager.send()
set_all_channels_send(t) ==
  /\ thr[t].pc = "all_send"
  /\ senders' = DMXManager_send(senders)
  /\ Step(t, [thr[t] EXCEPT !.pc = "all_track"])
  /\ UNCHANGED << playback, shutdown_requested, last_mqtt_channel_update,
                  timing, env, fallback_config, dmx_followers_settings,
                  received, fb_fired, armed, stamps, seq_cleared_by >>

\* set_all_channels: the last entry in range and above 0 is noted for the
\* frontend
set_all_channels_track(t) ==
  LET noted == {i \in 1..Len(thr[t].channels) :
                  InRange(thr[t].channels[i]) /\ thr[t].channels[i] > 0}
      last == CHOOSE i \in noted : \A j \in noted : j <= i
  IN /\ thr[t].pc = "all_track"
     /\ last_mqtt_channel_update' =
          IF noted = {} THEN last_mqtt_channel_update
          ELSE Some([channel |-> last, value |-> thr[t].channels[last]])
     /\ Step(t, [thr[t] EXCEPT !.pc = "done"])
     /\ UNCHANGED << playback, shutdown_requested, timing, env,
                     fallback_config, dmx_followers_settings, senders,
                     received, fb_fired, armed, stamps, seq_cleared_by >>

\* POST /api/dmx/blackout: self.dmx_manager.blackout()
blackout ==
  /\ Request("api/dmx/blackout", "", FALSE, NoThread)
  /\ senders' = DMXManager_blackout(senders)

\* channel requests and scenes, with and without followers
InitDmx ==
  Construct([cmds |-> MaxCmds, fallbacks |-> MaxFallbacks], {FallbackOff},
            {FollowersDisabled, FollowersOn})

NextDmx ==
  \/ \E topic \in ChannelTexts, payload \in PayloadTexts :
       handle_channel_control(topic, payload)
  \/ \E channel \in 0..(NumChannels + 1), value \in BodyValues :
       set_channel(channel, value)
  \/ \E channels \in [Channels -> ListValues] : set_all_channels(channels)
  \/ blackout
  \/ \E s \in DOMAIN scenes : play_scene_api(s)
  \/ \E t \in ThreadIds :
       \/ set_channel_send(t)
       \/ set_channel_track(t)
       \/ set_all_channels_set(t)
       \/ set_all_channels_send(t)
       \/ set_all_channels_track(t)
       \/ play_scene_stop_programmable(t)
       \/ play_scene_set_scene(t)
       \/ play_scene_start(t)
       \/ play_scene_run(t)
       \/ trigger_scene_fallback(t)

SpecDmx == InitDmx /\ [][NextDmx]_vars

\* ------------------------------------------------ apply_follower_channels
Keys == 1..MaxKey

\* the follower lists of one source
FollowerLists ==
  UNION {[1..n -> Keys] : n \in 0..MaxFollowers}

\* settings['dmx_followers']: mappings is a dict, its sources are distinct
FollowerSettings ==
  LET entries == Keys \X FollowerLists
      dicts == {<<>>} \cup {<<e>> : e \in entries}
               \cup UNION {{<<e, f>> : f \in {g \in entries : g[1] # e[1]}} :
                            e \in entries}
  IN [enabled : BOOLEAN, mappings : dicts]

\* the channel maps handed to apply_follower_channels
ChannelMaps == UNION {[K -> {0, 200}] : K \in SUBSET Keys}

\* apply_follower_channels(channels) is called and returns
apply_follower_channels_call(channels) ==
  /\ call = None
  /\ call' = Some([arg |-> channels, result |-> apply_follower_channels(channels)])
  /\ UNCHANGED << playback, shutdown_requested, last_mqtt_channel_update,
                  timing, limits, mqtt, now, active, returned, retransmission,
                  fallback_config, dmx_followers_settings, senders, thr,
                  received, fb_fired, armed, stamps, seq_cleared_by >>

InitFollowers ==
  Construct([cmds |-> 0, fallbacks |-> 0], {FallbackOff}, FollowerSettings)

NextFollowers ==
  \E channels \in ChannelMaps : apply_follower_channels_call(channels)

SpecFollowers == InitFollowers /\ [][NextFollowers]_vars

\* ------------------------------------------------------- retransmission
\* what the retransmission actions leave alone
aside == << playback, shutdown_requested, last_mqtt_channel_update, timing,
            limits, mqtt, now, active, call, returned, fallback_config,
            dmx_followers_settings, fb_fired, armed, stamps, seq_cleared_by >>

\* the intervals of the requests
Intervals == {0, DefaultInterval, MaxInterval + 1}

\* self.dmx_retransmission_thread and self.dmx_retransmission_thread.is_alive()
RetransmitterAlive ==
  /\ dmx_retransmission_thread # None
  /\ thr[dmx_retransmission_thread[1].id].kind = "retx"
  /\ thr[dmx_retransmission_thread[1].id].stamp = dmx_retransmission_thread[1].n

\* POST /api/settings/dmx-retransmission: 400 when the interval is out of
\* range, else update_dmx_retransmission_settings(enabled, interval)
set_dmx_retransmission(enabled, interval) ==
  /\ Request("api/settings/dmx-retransmission", <<enabled, interval>>,
             ~(interval < MinInterval \/ interval > MaxInterval),
             [Handler("api/settings/dmx-retransmission", "ux_enabled") EXCEPT
                !.loop = enabled, !.i = interval])
  /\ UNCHANGED senders

\* update_dmx_retransmission_settings: settings['enabled'] = enabled
update_dmx_retransmission_settings_enabled(t) ==
  /\ thr[t].pc = "ux_enabled"
  /\ dmx_retransmission_settings' =
       [dmx_retransmission_settings EXCEPT !.enabled = thr[t].loop]
  /\ Step(t, [thr[t] EXCEPT !.pc = "ux_interval"])
  /\ UNCHANGED << aside, dmx_retransmission_stop, dmx_retransmission_thread,
                  senders, received >>

\* update_dmx_retransmission_settings: settings['interval'] = interval, and
\* the branch on enabled
update_dmx_retransmission_settings_interval(t) ==
  /\ thr[t].pc = "ux_interval"
  /\ dmx_retransmission_settings' =
       [dmx_retransmission_settings EXCEPT !.interval = thr[t].i]
  /\ Step(t, [thr[t] EXCEPT !.pc = IF thr[t].loop THEN "sx_alive" ELSE "px_set"])
  /\ UNCHANGED << aside, dmx_retransmission_stop, dmx_retransmission_thread,
                  senders, received >>

\* start_dmx_retransmission: return when the thread is alive
start_dmx_retransmission_alive(t) ==
  /\ thr[t].pc = "sx_alive"
  /\ Step(t, [thr[t] EXCEPT !.pc = IF RetransmitterAlive THEN "done" ELSE "sx_clear"])
  /\ UNCHANGED << aside, retransmission, senders, received >>

\* start_dmx_retransmission: self.dmx_retransmission_stop.clear()
start_dmx_retransmission_clear(t) ==
  /\ thr[t].pc = "sx_clear"
  /\ dmx_retransmission_stop' = FALSE
  /\ Step(t, [thr[t] EXCEPT !.pc = "sx_thread"])
  /\ UNCHANGED << aside, dmx_retransmission_settings,
                  dmx_retransmission_thread, senders, received >>

\* start_dmx_retransmission: the thread is made, kept and started
start_dmx_retransmission_thread(t) ==
  LET n == IF dmx_retransmission_thread = None THEN 1
           ELSE dmx_retransmission_thread[1].n + 1
  IN /\ thr[t].pc = "sx_thread"
     /\ dmx_retransmission_thread' = Some([id |-> FreeId, n |-> n])
     /\ StepStart(t, [thr[t] EXCEPT !.pc = "done"],
                   [NoThread EXCEPT !.kind = "retx", !.pc = "rt_while",
                                    !.ctx = "retx", !.stamp = n])
     /\ UNCHANGED << aside, dmx_retransmission_settings,
                     dmx_retransmission_stop, senders, received >>

\* stop_dmx_retransmission: self.dmx_retransmission_stop.set()
stop_dmx_retransmission_set(t) ==
  /\ thr[t].pc = "px_set"
  /\ dmx_retransmission_stop' = TRUE
  /\ Step(t, [thr[t] EXCEPT !.pc = "px_join"])
  /\ UNCHANGED << aside, dmx_retransmission_settings,
                  dmx_retransmission_thread, senders, received >>

\* stop_dmx_retransmission: join(timeout=2); the thread, woken by the event,
\* ends within the timeout
stop_dmx_retransmission_join(t) ==
  /\ thr[t].pc = "px_join"
  /\ ~RetransmitterAlive
  /\ Step(t, [thr[t] EXCEPT !.pc = "done"])
  /\ UNCHANGED << aside, retransmission, senders, received >>

\* retransmit: while not self.dmx_retransmission_stop.is_set()
retransmit_while(t) ==
  /\ thr[t].pc = "rt_while"
  /\ Step(t, [thr[t] EXCEPT !.pc = IF dmx_retransmission_stop THEN "done" ELSE "rt_send"])
  /\ UNCHANGED << aside, retransmission, senders, received >>

\* retransmit: the interval is read and self.dmx_manager.send()
retransmit_send(t) ==
  /\ thr[t].pc = "rt_send"
  /\ senders' = DMXManager_send(senders)
  /\ Step(t, [thr[t] EXCEPT !.pc = "rt_wait",
                            !.i = dmx_retransmission_settings.interval])
  /\ UNCHANGED << aside, retransmission, received >>

\* retransmit: self.dmx_retransmission_stop.wait(interval) returns, the event
\* set or the interval over
retransmit_wait(t) ==
  /\ thr[t].pc = "rt_wait"
  /\ Step(t, [thr[t] EXCEPT !.pc = "rt_while"])
  /\ UNCHANGED << aside, retransmission, senders, received >>

\* requests to the retransmission settings, some at the same time
InitRetransmit ==
  Construct([cmds |-> MaxCmds + 1, fallbacks |-> 0], {FallbackOff}, {FollowersOff})

NextRetransmit ==
  \/ \E enabled \in BOOLEAN, interval \in Intervals :
       set_dmx_retransmission(enabled, interval)
  \/ \E t \in ThreadIds :
       \/ update_dmx_retransmission_settings_enabled(t)
       \/ update_dmx_retransmission_settings_interval(t)
       \/ start_dmx_retransmission_alive(t)
       \/ start_dmx_retransmission_clear(t)
       \/ start_dmx_retransmission_thread(t)
       \/ stop_dmx_retransmission_set(t)
       \/ stop_dmx_retransmission_join(t)
       \/ retransmit_while(t)
       \/ retransmit_send(t)
       \/ retransmit_wait(t)

SpecRetransmit == InitRetransmit /\ [][NextRetransmit]_vars

\* ------------------------------------------------------ channel-update
\* GET /api/dmx/channel-update: `if self.last_mqtt_channel_update:`; when
\* there is none the answer is {"update": null}
get_channel_update ==
  /\ Request("api/dmx/channel-update", "", last_mqtt_channel_update # None,
             Handler("api/dmx/channel-update", "gu_copy"))
  /\ UNCHANGED senders

\* get_channel_update: update = self.last_mqtt_channel_update.copy(); on
\* None the call raises AttributeError and the answer is the error (500)
get_channel_update_copy(t) ==
  /\ thr[t].pc = "gu_copy"
  /\ IF last_mqtt_channel_update = None
     THEN /\ returned' = Append(returned, [error |-> TRUE, channel |-> 0, value |-> 0])
          /\ Step(t, [thr[t] EXCEPT !.pc = "done"])
     ELSE /\ UNCHANGED returned
          /\ Step(t, [thr[t] EXCEPT !.pc = "gu_clear",
                                    !.channel = last_mqtt_channel_update[1].channel,
                                    !.value = last_mqtt_channel_update[1].value])
  /\ UNCHANGED << playback, shutdown_requested, last_mqtt_channel_update,
                  timing, limits, mqtt, now, active, call, retransmission,
                  fallback_config, dmx_followers_settings, senders, received,
                  fb_fired, armed, stamps, seq_cleared_by >>

\* get_channel_update: self.last_mqtt_channel_update = None, and the answer
\* is the copy
get_channel_update_clear(t) ==
  /\ thr[t].pc = "gu_clear"
  /\ last_mqtt_channel_update' = None
  /\ returned' = Append(returned, [error |-> FALSE, channel |-> thr[t].channel,
                                   value |-> thr[t].value])
  /\ Step(t, [thr[t] EXCEPT !.pc = "done"])
  /\ UNCHANGED << playback, shutdown_requested, timing, limits, mqtt, now, active,
                  call, retransmission, fallback_config,
                  dmx_followers_settings, senders, received, fb_fired, armed,
                  stamps, seq_cleared_by >>

\* bus messages for channels and the frontend asking for the last update
InitPoll ==
  Construct([cmds |-> MaxCmds + 1, fallbacks |-> 0], {FallbackOff}, {FollowersOff})

NextPoll ==
  \/ \E topic \in ChannelTexts, payload \in PayloadTexts :
       handle_channel_control(topic, payload)
  \/ get_channel_update
  \/ \E t \in ThreadIds :
       \/ set_channel_send(t)
       \/ set_channel_track(t)
       \/ get_channel_update_copy(t)
       \/ get_channel_update_clear(t)

SpecPoll == InitPoll /\ [][NextPoll]_vars

\* -------------------------------------------------- setup_dmx_senders
\* the names of the configured senders, and f"test_{name}"
SenderNames == {"", "a", "test_a"}

TestName(name) ==
  CASE name = "a"      -> "test_a"
    [] name = "test_a" -> "test_test_a"
    [] OTHER           -> "test_"

\* settings['dmx']['default_configs']: starts tells whether start() of the
\* sender made from the entry will succeed
DmxConfigs ==
  UNION {[1..n -> [type : {"artnet", "e131", "test"}, name : SenderNames,
                   universe : 1..2, starts : BOOLEAN]] : n \in 0..MaxConfigs}

\* ConfigManager.validate_dmx_config
validate_dmx_config(config) ==
  /\ config.type \in {"artnet", "e131"}
  /\ config.name # ""

\* a sender as its constructor leaves it
NewSender(test, universe) ==
  [active |-> test, test |-> test, universe |-> universe,
   universe_data |-> [c \in Channels |-> 0], wire |-> [c \in Channels |-> 0]]

\* DMXManager.add_sender(name, sender) with the outcome of sender.start():
\* the senders afterwards and the value returned
add_sender(snd, name, sender, starts) ==
  IF name \in DOMAIN snd THEN [senders |-> snd, ok |-> FALSE]
  ELSE [senders |-> snd @@ (name :> [sender EXCEPT !.active = starts]),
        ok |-> starts]

\* setup_dmx_senders, one turn of `for config in dmx_configs`; log keeps the
\* names of the senders whose start failed
setup_dmx_senders_config(t) ==
  LET config == thr[t].configs[thr[t].i]
      first == add_sender(senders, config.name,
                          NewSender(FALSE, config.universe), config.starts)
      test == add_sender(first.senders, TestName(config.name),
                         NewSender(TRUE, config.universe), TRUE)
      failed == config.name \notin DOMAIN senders /\ ~config.starts
  IN /\ thr[t].pc = "su_for"
     /\ thr[t].i <= Len(thr[t].configs)
     /\ senders' = IF ~validate_dmx_config(config) THEN senders
                   ELSE IF first.ok THEN first.senders ELSE test.senders
     /\ Step(t, [thr[t] EXCEPT
                   !.i = @ + 1,
                   !.log = IF validate_dmx_config(config) /\ failed
                           THEN Append(@, config.name) ELSE @])
     /\ UNCHANGED << aside, retransmission, received >>

\* setup_dmx_senders after the loop: `if not self.dmx_manager.list_senders()`
setup_dmx_senders_default(t) ==
  /\ thr[t].pc = "su_for"
  /\ thr[t].i > Len(thr[t].configs)
  /\ senders' = IF DOMAIN senders = {}
                THEN add_sender(senders, "default_test", NewSender(TRUE, 1), TRUE).senders
                ELSE senders
  /\ Step(t, [thr[t] EXCEPT !.pc = "ready"])
  /\ UNCHANGED << aside, retransmission, received >>

\* the constructor is about to call setup_dmx_senders
InitSetup ==
  \E configs \in DmxConfigs :
    ConstructWith([cmds |-> 0, fallbacks |-> 0], {FallbackOff}, {FollowersOff},
                  <<>>,
                  [t \in ThreadIds |->
                     IF t = 1
                     THEN [Handler("setup_dmx_senders", "su_for") EXCEPT
                             !.configs = configs, !.i = 1]
                     ELSE NoThread])

NextSetup ==
  \E t \in ThreadIds :
    \/ setup_dmx_senders_config(t)
    \/ setup_dmx_senders_default(t)

SpecSetup == InitSetup /\ [][NextSetup]_vars

\* ------------------------------------------------------------ the locks
\* no thread holds the lock
LockFree(lock) == \A u \in ThreadIds : lock \notin thr[u].holds

\* POST /api/dmx/channel/<N>, valid, up to its send:
\* self.dmx_manager.set_channel(channel, value) takes both locks, writes and
\* releases them
set_channel_set(channel, value) ==
  /\ LockFree("manager") /\ LockFree("sender")
  /\ Request("api/dmx/channel", <<channel, value>>, TRUE,
             [Handler("api/dmx/channel", "ms_lock") EXCEPT
                !.channel = channel, !.value = value, !.ret = "ch_track"])
  /\ senders' = DMXManager_set_channel(senders, channel, value)

\* POST /api/dmx/blackout, up to self.dmx_manager.blackout()
blackout_request ==
  /\ Request("api/dmx/blackout", "", TRUE, Handler("api/dmx/blackout", "mb_lock"))
  /\ UNCHANGED senders

\* DMXManager.send: `with self.lock:`
DMXManager_send_acquire(t) ==
  /\ thr[t].pc = "ms_lock"
  /\ LockFree("manager")
  /\ Step(t, [thr[t] EXCEPT !.pc = "ss_lock", !.holds = @ \cup {"manager"}])
  /\ UNCHANGED << aside, retransmission, senders, received >>

\* DMXManager.blackout: `with self.lock:`
DMXManager_blackout_acquire(t) ==
  /\ thr[t].pc = "mb_lock"
  /\ LockFree("manager")
  /\ Step(t, [thr[t] EXCEPT !.pc = "bs_zero", !.holds = @ \cup {"manager"}])
  /\ UNCHANGED << aside, retransmission, senders, received >>

\* DMXSender.blackout: `with self.lock: self.universe_data = [0] * 512`,
\* then self.send()
DMXSender_blackout_zero(t) ==
  /\ thr[t].pc = "bs_zero"
  /\ LockFree("sender")
  /\ senders' = DMXManager_blackout_unsent(senders)
  /\ Step(t, [thr[t] EXCEPT !.pc = "ss_lock"])
  /\ UNCHANGED << aside, retransmission, received >>

\* send of a sender: `if self._active: with self.lock:`
DMXSender_send_acquire(t) ==
  /\ thr[t].pc = "ss_lock"
  /\ LockFree("sender")
  /\ Step(t, [thr[t] EXCEPT !.pc = "ss_emit", !.holds = @ \cup {"sender"}])
  /\ UNCHANGED << aside, retransmission, senders, received >>

\* send of a sender: the universe goes to the sink
DMXSender_send_emit(t) ==
  /\ thr[t].pc = "ss_emit"
  /\ senders' = DMXManager_send(senders)
  /\ Step(t, [thr[t] EXCEPT !.pc = "ss_unlock"])
  /\ UNCHANGED << aside, retransmission, received >>

\* send of a sender: the end of `with self.lock:`
DMXSender_send_release(t) ==
  /\ thr[t].pc = "ss_unlock"
  /\ Step(t, [thr[t] EXCEPT !.pc = "ms_unlock", !.holds = @ \ {"sender"}])
  /\ UNCHANGED << aside, retransmission, senders, received >>

\* DMXManager.send and DMXManager.blackout: the end of `with self.lock:`
DMXManager_release(t) ==
  /\ thr[t].pc = "ms_unlock"
  /\ Step(t, [thr[t] EXCEPT !.pc = thr[t].ret, !.holds = @ \ {"manager"}])
  /\ UNCHANGED << aside, retransmission, senders, received >>

\* channel requests and blackouts with their locks
InitLock ==
  Construct([cmds |-> MaxCmds + 1, fallbacks |-> 0], {FallbackOff}, {FollowersOff})

NextLock ==
  \/ \E channel \in Channels, value \in {0, 200} : set_channel_set(channel, value)
  \/ blackout_request
  \/ \E t \in ThreadIds :
       \/ DMXManager_send_acquire(t)
       \/ DMXManager_blackout_acquire(t)
       \/ DMXSender_blackout_zero(t)
       \/ DMXSender_send_acquire(t)
       \/ DMXSender_send_emit(t)
       \/ DMXSender_send_release(t)
       \/ DMXManager_release(t)
       \/ set_channel_track(t)

SpecLock == InitLock /\ [][NextLock]_vars

\* ------------------------------------------------------ sequence triggers
\* the sequences that config['sequences'] holds in the legacy form, a bare
\* array of steps; the others are held as objects {steps, loop}
LegacyForm == {"chase"}

\* what play_sequence gets when it is handed config['sequences'][q] itself:
\* a list of steps for the legacy form, else the object; loop is the default
StoredIsObject(q) == q \notin LegacyForm

\* on_message: `elif topic in self.config.get('sequences', {}):
\* self.play_sequence(self.config['sequences'][topic])`
on_message_sequence(topic) ==
  /\ topic \in DOMAIN sequences
  /\ ReceiveAs("sequence_topic", "pq_stopprog", topic, FALSE, StoredIsObject(topic))

\* start_autostart with type 'sequence':
\* `self.play_sequence(self.config['sequences'][autostart_id])`
start_autostart(autostart_id) ==
  /\ autostart_id \in DOMAIN sequences
  /\ ReceiveAs("autostart", "pq_stopprog", autostart_id, FALSE,
               StoredIsObject(autostart_id))

InitTrigger ==
  Construct([cmds |-> MaxCmds, fallbacks |-> 0], {FallbackOff}, {FollowersOff})

NextTrigger ==
  \/ \E q \in DOMAIN sequences : play_sequence_api(q)
  \/ \E topic \in DOMAIN sequences : on_message_sequence(topic)
  \/ \E autostart_id \in DOMAIN sequences : start_autostart(autostart_id)
  \/ \E t \in ThreadIds :
       \/ play_sequence_stop_programmable(t)
       \/ play_sequence_set_sequence(t)
       \/ play_sequence_start(t)
       \/ sequence_run_while(t)
       \/ sequence_run_step(t)
       \/ sequence_run_apply(t)
       \/ sequence_run_wait(t)
       \/ sequence_run_cleanup(t)
       \/ sequence_run_fallback(t)
       \/ play_scene_stop_programmable(t)
       \/ play_scene_set_scene(t)
       \/ play_scene_start(t)
       \/ play_scene_run(t)
       \/ trigger_scene_fallback(t)

SpecTrigger == InitTrigger /\ [][NextTrigger]_vars

\* ------------------------------------------------------- playback errors
\* every stored sequence and programmable scene is played from the API
InitErrors ==
  Construct([cmds |-> MaxCmds, fallbacks |-> 0], {FallbackOff}, {FollowersOff})

NextErrors ==
  \/ \E p \in DOMAIN programmable_scenes : play_programmable_scene_api(p)
  \/ \E q \in DOMAIN sequences : play_sequence_api(q)
  \/ \E t \in ThreadIds :
       \/ play_programmable_set_scene(t)
       \/ play_programmable_clear_sequence(t)
       \/ play_programmable_start(t)
       \/ \E tm \in Times, expired \in BOOLEAN : programmable_run_while(t, tm, expired)
       \/ programmable_run_frame(t)
       \/ programmable_run_cleanup(t)
       \/ programmable_run_fallback(t)
       \/ play_sequence_stop_programmable(t)
       \/ play_sequence_set_sequence(t)
       \/ play_sequence_start(t)
       \/ sequence_run_while(t)
       \/ sequence_run_step(t)
       \/ sequence_run_apply(t)
       \/ sequence_run_wait(t)
       \/ sequence_run_cleanup(t)
       \/ sequence_run_fallback(t)
       \/ play_scene_stop_programmable(t)
       \/ play_scene_set_scene(t)
       \/ play_scene_start(t)
       \/ play_scene_run(t)
       \/ trigger_scene_fallback(t)

SpecErrors == InitErrors /\ [][NextErrors]_vars

\* ---------------------------------------------------------------- shutdown
\* signal_handler: self.shutdown_requested = True, then self.shutdown()
signal_handler ==
  /\ ~shutdown_requested
  /\ \E u \in ThreadIds : thr[u].kind = "free"
  /\ shutdown_requested' = TRUE
  /\ thr' = [thr EXCEPT ![FreeId] = Handler("signal", "sd_sequence")]
  /\ UNCHANGED << playback, last_mqtt_channel_update, timing, env,
                  fallback_config, dmx_followers_settings, senders, received,
                  fb_fired, armed, stamps, seq_cleared_by >>

\* shutdown: `if self.current_sequence_playback:` the sequence slot, the
\* step index and the step data are cleared; the other slots are not
shutdown_sequence(t) ==
  /\ thr[t].pc = "sd_sequence"
  /\ IF current_sequence_playback # None
     THEN /\ current_sequence_playback' = None
          /\ current_step_index' = 0
          /\ current_step_data' = None
     ELSE UNCHANGED << current_sequence_playback, current_step_index,
                       current_step_data >>
  /\ seq_cleared_by' = ClearedBy("shutdown")
  /\ Step(t, [thr[t] EXCEPT !.pc = "sd_stop_all"])
  /\ UNCHANGED << current_scene_playback, current_programmable_scene_playback,
                  playback_paused, shutdown_requested, last_mqtt_channel_update,
                  timing, env, fallback_config, dmx_followers_settings,
                  senders, received, fb_fired, armed, stamps >>

\* DMXManager.stop_all: every sender is stopped, then self.senders.clear()
DMXManager_stop_all(snd) == [n \in {} |-> snd[n]]

\* shutdown: self.dmx_manager.stop_all(), which waits for the lock of the
\* manager, and after it (the bus and the web server aside)
\* self.stop_dmx_retransmission()
shutdown_stop_all(t) ==
  /\ thr[t].pc = "sd_stop_all"
  /\ LockFree("manager")
  /\ senders' = DMXManager_stop_all(senders)
  /\ Step(t, [thr[t] EXCEPT !.pc = "px_set"])
  /\ UNCHANGED << aside, retransmission, received >>

\* the retransmission is switched on and off, and the process is signalled
InitShutdown ==
  Construct([cmds |-> MaxCmds, fallbacks |-> 0], {FallbackOff}, {FollowersOff})

NextShutdown ==
  \/ \E enabled \in BOOLEAN, interval \in Intervals :
       set_dmx_retransmission(enabled, interval)
  \/ signal_handler
  \/ \E t \in ThreadIds :
       \/ update_dmx_retransmission_settings_enabled(t)
       \/ update_dmx_retransmission_settings_interval(t)
       \/ start_dmx_retransmission_alive(t)
       \/ start_dmx_retransmission_clear(t)
       \/ start_dmx_retransmission_thread(t)
       \/ stop_dmx_retransmission_set(t)
       \/ stop_dmx_retransmission_join(t)
       \/ retransmit_while(t)
       \/ retransmit_send(t)
       \/ retransmit_wait(t)
       \/ shutdown_sequence(t)
       \/ shutdown_stop_all(t)

SpecShutdown == InitShutdown /\ [][NextShutdown]_vars

\* ------------------------------------------------------------ the evaluator
\* expressions of scenes, scene times and channels
Expressions == {"100*t", "ch", "t/2", "t-1.5", "300", "hsv_to_rgb(0,1,1)",
                "(300,-5*t)", "'a'", "1/0", "os", "open('x')"}
SceneTimes == 0..3
EvaluatedChannels == {1, 7, 8, 9, 10}

\* one call of evaluate_expression
evaluate_expression_call(expression, t, ch) ==
  /\ call = None
  /\ call' = Some([arg |-> << expression, t, ch >>,
                   result |-> evaluate_expression(expression, t, ch)])
  /\ UNCHANGED << playback, shutdown_requested, last_mqtt_channel_update,
                  timing, limits, mqtt, now, active, returned, retransmission,
                  fallback_config, dmx_followers_settings, senders, thr,
                  received, fb_fired, armed, stamps, seq_cleared_by >>

InitEvaluate ==
  Construct([cmds |-> 0, fallbacks |-> 0], {FallbackOff}, {FollowersOff})

NextEvaluate ==
  \E expression \in Expressions, t \in SceneTimes, ch \in EvaluatedChannels :
    evaluate_expression_call(expression, t, ch)

SpecEvaluate == InitEvaluate /\ [][NextEvaluate]_vars

\* ------------------------------------------------------------ step durations
\* the 'duration' of a stored step: missing, an int n, or a float of n tenths
MaxDuration == 30
Durations ==
  {<< >>} \cup {<< "int", n >> : n \in 0..MaxDuration}
         \cup {<< "float", n >> : n \in 0..MaxDuration}

\* sequences_config.get('default_duration', 1.0)
default_duration == << "float", 10 >>

\* play_sequence.run: the seconds a step waits, in milliseconds. A scene
\* step: step.get('duration', default_duration), and `if isinstance(duration,
\* int): duration = duration / 1000.0`. A direct step:
\* step.get('duration', default_duration) as it is.
step_wait(kind, duration) ==
  LET d == IF duration = << >> THEN default_duration ELSE duration IN
  IF d[1] = "int"
  THEN IF kind = "scene" THEN d[2] ELSE 1000 * d[2]
  ELSE 100 * d[2]

\* one step of a sequence reaches its wait loop
step_wait_call(kind, duration) ==
  /\ call = None
  /\ call' = Some([arg |-> << kind, duration >>,
                   result |-> step_wait(kind, duration)])
  /\ UNCHANGED << playback, shutdown_requested, last_mqtt_channel_update,
                  timing, limits, mqtt, now, active, returned, retransmission,
                  fallback_config, dmx_followers_settings, senders, thr,
                  received, fb_fired, armed, stamps, seq_cleared_by >>

InitDuration ==
  Construct([cmds |-> 0, fallbacks |-> 0], {FallbackOff}, {FollowersOff})

NextDuration ==
  \E kind \in {"scene", "dmx"}, duration \in Durations :
    step_wait_call(kind, duration)

SpecDuration == InitDuration /\ [][NextDuration]_vars

\* ------------------------------------------------------- sender management
\* two sinks that started, as setup_dmx_senders leaves them
TwoSenders == ( "a" :> NewSender(TRUE, 1) ) @@ ( "b" :> NewSender(TRUE, 1) )

\* the fourth segment of a topic dmx/sender/<action>/<name>, None when the
\* topic has three segments
SenderTexts == {None, Some("a"), Some("b"), Some("zz")}

\* DMXManager.blackout(sender_name): the named sender is blacked out, active
\* or not, and DMXSender.blackout sends when the sender is active; without
\* a name every active sender is
DMXManager_blackout_named(snd, sender_name) ==
  IF sender_name = None THEN DMXManager_blackout(snd)
  ELSE [n \in DOMAIN snd |->
          IF n = sender_name[1]
          THEN [snd[n] EXCEPT !.universe_data = [c \in Channels |-> 0],
                              !.wire = IF snd[n].active
                                       THEN [c \in Channels |-> 0] ELSE @]
          ELSE snd[n]]

\* DMXManager.remove_sender: sender.stop() and del self.senders[name]
DMXManager_remove_sender(snd, name) ==
  [n \in DOMAIN snd \ {name} |-> snd[n]]

\* handle_sender_management, action "blackout"
handle_sender_management_blackout(sender_name) ==
  /\ Request("dmx/sender/blackout", sender_name, FALSE, NoThread)
  /\ senders' = DMXManager_blackout_named(senders, sender_name)

\* handle_sender_management, action "remove": `and sender_name`
handle_sender_management_remove(sender_name) ==
  /\ Request("dmx/sender/remove", sender_name, FALSE, NoThread)
  /\ senders' = IF sender_name = None THEN senders
                ELSE DMXManager_remove_sender(senders, sender_name[1])

InitSinks ==
  ConstructWith([cmds |-> MaxCmds + 1, fallbacks |-> 0], {FallbackOff},
                {FollowersOff}, TwoSenders, [t \in ThreadIds |-> NoThread])

NextSinks ==
  \/ \E topic \in ChannelTexts, payload \in PayloadTexts :
       handle_channel_control(topic, payload)
  \/ \E sender_name \in SenderTexts : handle_sender_management_blackout(sender_name)
  \/ \E sender_name \in SenderTexts : handle_sender_management_remove(sender_name)
  \/ \E t \in ThreadIds :
       \/ set_channel_send(t)
       \/ set_channel_track(t)

SpecSinks == InitSinks /\ [][NextSinks]_vars

\* ------------------------------------------------------ commits to a sink
\* a caller of set_channels_with_followers(channels) followed by
\* self.dmx_manager.send(), as play_scene.run, a direct step and a frame do:
\* here every channel gets the same value
DMXManager_set_channels_call(value) ==
  /\ Request("set_channels", value, TRUE,
             [Handler("set_channels", "mc_lock") EXCEPT
                !.channels = [c \in Channels |-> value], !.i = 0])
  /\ UNCHANGED senders

\* DMXManager.set_channels without its lock and without the sender's
DMXManager_set_channels_acquire_unlocked(t) ==
  /\ thr[t].pc = "mc_lock"
  /\ Step(t, [thr[t] EXCEPT !.pc = "sc_write"])
  /\ UNCHANGED << aside, retransmission, senders, received >>

\* DMXManager.set_channels: `with self.lock:`
DMXManager_set_channels_acquire(t) ==
  /\ thr[t].pc = "mc_lock"
  /\ LockFree("manager")
  /\ Step(t, [thr[t] EXCEPT !.pc = "sc_lock", !.holds = @ \cup {"manager"}])
  /\ UNCHANGED << aside, retransmission, senders, received >>

\* DMXSender.set_channels: `with self.lock:`
DMXSender_set_channels_acquire(t) ==
  /\ thr[t].pc = "sc_lock"
  /\ LockFree("sender")
  /\ Step(t, [thr[t] EXCEPT !.pc = "sc_write", !.holds = @ \cup {"sender"}])
  /\ UNCHANGED << aside, retransmission, senders, received >>

\* DMXSender.set_channels, one pass of `for channel, value in
\* channels.items():` self.universe_data[channel - 1] = value
DMXSender_set_channels_write(t) ==
  /\ thr[t].pc = "sc_write"
  /\ LET channel == thr[t].i + 1 IN
     /\ senders' = DMXManager_set_channel(senders, channel, thr[t].channels[channel])
     /\ Step(t, [thr[t] EXCEPT !.i = channel,
                               !.pc = IF channel = NumChannels THEN "sc_unlock"
                                      ELSE "sc_write"])
  /\ UNCHANGED << aside, retransmission, received >>

\* DMXSender.set_channels: the end of `with self.lock:`
DMXSender_set_channels_release(t) ==
  /\ thr[t].pc = "sc_unlock"
  /\ Step(t, [thr[t] EXCEPT !.pc = "mc_unlock", !.holds = @ \ {"sender"}])
  /\ UNCHANGED << aside, retransmission, senders, received >>

\* DMXManager.set_channels: the end of `with self.lock:`; the caller goes
\* on to self.dmx_manager.send()
DMXManager_set_channels_release(t) ==
  /\ thr[t].pc = "mc_unlock"
  /\ Step(t, [thr[t] EXCEPT !.pc = "ms_lock", !.holds = @ \ {"manager"}])
  /\ UNCHANGED << aside, retransmission, senders, received >>

\* commits, blackouts and sends with their locks
InitCommit ==
  Construct([cmds |-> MaxCmds + 1, fallbacks |-> 0], {FallbackOff}, {FollowersOff})

NextCommit ==
  \/ \E value \in {100, 200} : DMXManager_set_channels_call(value)
  \/ blackout_request
  \/ \E t \in ThreadIds :
       \/ DMXManager_set_channels_acquire(t)
       \/ DMXSender_set_channels_acquire(t)
       \/ DMXSender_set_channels_write(t)
       \/ DMXSender_set_channels_release(t)
       \/ DMXManager_set_channels_release(t)
       \/ DMXManager_send_acquire(t)
       \/ DMXManager_blackout_acquire(t)
       \/ DMXSender_blackout_zero(t)
       \/ DMXSender_send_acquire(t)
       \/ DMXSender_send_emit(t)
       \/ DMXSender_send_release(t)
       \/ DMXManager_release(t)

SpecCommit == InitCommit /\ [][NextCommit]_vars

\* ------------------------------------------------- signals and the locks
\* the main thread runs client.loop_forever(), and with it on_message
MainThread(t) == thr[t].op = "dmx/set/channel"

\* on_message in the main thread, dmx/set/channel/<N>, valid, up to its
\* send: self.dmx_manager.set_channel(channel, value) takes both locks,
\* writes and releases them
on_message_channel(channel, value) ==
  /\ \A t \in ThreadIds : ~MainThread(t)
  /\ LockFree("manager") /\ LockFree("sender")
  /\ Request("dmx/set/channel", <<channel, value>>, TRUE,
             [Handler("dmx/set/channel", "ms_lock") EXCEPT
                !.channel = channel, !.value = value, !.ret = "ch_track"])
  /\ senders' = DMXManager_set_channel(senders, channel, value)

\* a signal arrives: signal_handler runs in the main thread, on top of what
\* the main thread is doing, with the locks the main thread holds
signal_interrupt(t) ==
  /\ ~shutdown_requested
  /\ MainThread(t)
  /\ shutdown_requested' = TRUE
  /\ Step(t, [thr[t] EXCEPT !.pc = "sd_sequence"])
  /\ UNCHANGED << playback, last_mqtt_channel_update, timing, env,
                  fallback_config, dmx_followers_settings, senders, received,
                  fb_fired, armed, stamps, seq_cleared_by >>

\* bus messages in the main thread, requests in the threads of the web
\* server, and a signal
InitSignal ==
  Construct([cmds |-> MaxCmds + 1, fallbacks |-> 0], {FallbackOff}, {FollowersOff})

NextSignal ==
  \/ \E channel \in Channels, value \in {0, 200} : on_message_channel(channel, value)
  \/ \E channel \in Channels, value \in {0, 200} : set_channel_set(channel, value)
  \/ blackout_request
  \/ \E t \in ThreadIds :
       \/ signal_interrupt(t)
       \/ shutdown_sequence(t)
       \/ shutdown_stop_all(t)
       \/ stop_dmx_retransmission_set(t)
       \/ stop_dmx_retransmission_join(t)
       \/ DMXManager_send_acquire(t)
       \/ DMXManager_blackout_acquire(t)
       \/ DMXSender_blackout_zero(t)
       \/ DMXSender_send_acquire(t)
       \/ DMXSender_send_emit(t)
       \/ DMXSender_send_release(t)
       \/ DMXManager_release(t)
       \/ set_channel_track(t)

SpecSignal == InitSignal /\ [][NextSignal]_vars

\* ------------------------------------------------- the bus connection
\* standard_topics of refresh_mqtt_subscriptions
standard_topics == {"dmx/set/channel/#", "dmx/scene/#", "dmx/sender/#", "dmx/config/#"}

\* self.max_mqtt_reconnect_attempts
max_mqtt_reconnect_attempts == 3

\* names a request can give a sequence: those of the configuration and one more
SequenceTopics == DOMAIN sequences \cup {"extra"}

\* what the engine has to be subscribed to
new_subscriptions(m) == m.config_sequences \cup standard_topics

\* refresh_mqtt_subscriptions: nothing without a connection; the recorded
\* topics that are neither configured nor standard are unsubscribed, and a
\* subscribe goes out for the topics that are not in
\* self.current_mqtt_subscriptions. The broker takes a subscribe only over
\* a link that is up.
refresh_mqtt_subscriptions(m) ==
  IF ~m.mqtt_connected THEN m
  ELSE LET topics_to_unsubscribe ==
             (m.current_mqtt_subscriptions \ new_subscriptions(m)) \ standard_topics
           kept == m.current_mqtt_subscriptions \ topics_to_unsubscribe
           topics_to_subscribe == new_subscriptions(m) \ kept
       IN [m EXCEPT
             !.current_mqtt_subscriptions = kept \cup topics_to_subscribe,
             !.session = IF m.link = "up"
                           THEN (m.session \ topics_to_unsubscribe) \cup topics_to_subscribe
                           ELSE m.session]

\* on_connect(rc): the answer of the broker to a connect. The client is
\* made with clean_session=True, so the session that begins has no
\* subscription. rc == 0: connected, and unless subscriptions_done the
\* subscriptions are refreshed and the flag is set.
on_connect(rc) ==
  /\ mqtt.link = "connecting"
  /\ mqtt' =
       IF rc = 0
         THEN LET up == [mqtt EXCEPT !.link = "up", !.session = {},
                                     !.mqtt_connected = TRUE]
              IN IF ~up.subscriptions_done
                   THEN [refresh_mqtt_subscriptions(up) EXCEPT
                           !.subscriptions_done = TRUE]
                   ELSE up
         ELSE [mqtt EXCEPT !.link = "off", !.mqtt_connected = FALSE]
  /\ UNCHANGED << senders, thr, received, dmx_followers_settings,
                  fallback_config, fb_fired, armed, stamps, seq_cleared_by,
                  playback, shutdown_requested, last_mqtt_channel_update,
                  timing, limits, now, active, call, returned, retransmission >>

\* the link breaks: the broker drops the clean session and what it held
connection_lost ==
  /\ mqtt.link = "up"
  /\ mqtt' = [mqtt EXCEPT !.link = "lost", !.session = {}]
  /\ UNCHANGED << senders, thr, received, dmx_followers_settings,
                  fallback_config, fb_fired, armed, stamps, seq_cleared_by,
                  playback, shutdown_requested, last_mqtt_channel_update,
                  timing, limits, now, active, call, returned, retransmission >>

\* on_disconnect(rc) with rc != 0: the attempt is counted; within
\* max_mqtt_reconnect_attempts subscriptions_done is reset and
\* client.reconnect() is called, which connects or raises (at the last
\* attempt the client is then given up, before it loop_forever connects
\* again); beyond them stop_mqtt_reconnection. In the end
\* mqtt_connected = False.
on_disconnect(reconnects) ==
  /\ mqtt.link = "lost"
  /\ LET attempts == mqtt.mqtt_reconnect_attempts + 1
     IN mqtt' =
          IF attempts <= max_mqtt_reconnect_attempts
            THEN [mqtt EXCEPT
                    !.mqtt_reconnect_attempts = attempts,
                    !.subscriptions_done = FALSE,
                    !.mqtt_connected = FALSE,
                    !.link = IF ~reconnects /\ attempts >= max_mqtt_reconnect_attempts
                               THEN "off" ELSE "connecting"]
            ELSE [mqtt EXCEPT
                    !.mqtt_reconnect_attempts = attempts,
                    !.mqtt_connected = FALSE,
                    !.link = "off"]
  /\ UNCHANGED << senders, thr, received, dmx_followers_settings,
                  fallback_config, fb_fired, armed, stamps, seq_cleared_by,
                  playback, shutdown_requested, last_mqtt_channel_update,
                  timing, limits, now, active, call, returned, retransmission >>

\* POST /api/sequences: the sequence is stored and the subscriptions are
\* refreshed
create_sequence(sequence_name) ==
  /\ sequence_name \notin mqtt.config_sequences
  /\ mqtt' = refresh_mqtt_subscriptions(
               [mqtt EXCEPT !.config_sequences = @ \cup {sequence_name}])
  /\ UNCHANGED << senders, thr, received, dmx_followers_settings,
                  fallback_config, fb_fired, armed, stamps, seq_cleared_by,
                  playback, shutdown_requested, last_mqtt_channel_update,
                  timing, limits, now, active, call, returned, retransmission >>

\* DELETE /api/sequences/<sequence_id>: 404 for a name that is not stored;
\* the sequence is deleted and the subscriptions are refreshed
delete_sequence(sequence_id) ==
  /\ sequence_id \in mqtt.config_sequences
  /\ mqtt' = refresh_mqtt_subscriptions(
               [mqtt EXCEPT !.config_sequences = @ \ {sequence_id}])
  /\ UNCHANGED << senders, thr, received, dmx_followers_settings,
                  fallback_config, fb_fired, armed, stamps, seq_cleared_by,
                  playback, shutdown_requested, last_mqtt_channel_update,
                  timing, limits, now, active, call, returned, retransmission >>

\* the bus client and the requests that change the sequences
InitMqtt ==
  Construct([cmds |-> 0, fallbacks |-> 0], {FallbackOff}, {FollowersOff})

NextMqtt ==
  \/ \E rc \in {0, 5} : on_connect(rc)
  \/ connection_lost
  \/ \E reconnects \in BOOLEAN : on_disconnect(reconnects)
  \/ \E sequence_name \in SequenceTopics : create_sequence(sequence_name)
  \/ \E sequence_id \in SequenceTopics : delete_sequence(sequence_id)

SpecMqtt == InitMqtt /\ [][NextMqtt]_vars

\* C40: whenever the engine is connected, after on_connect has run, the
\* session at the broker holds the four standard topic filters and every
\* configured sequence topic; in particular after an unexpected
\* disconnect and a successful reconnect.
C40_SubscribedWhileConnected ==
  mqtt.link = "up" => new_subscriptions(mqtt) \subseteq mqtt.session

\* ------------------------------------------------- the fallback slots
\* a slot of config['fallback']
Slot(e, id) == [enabled |-> e, scene_id |-> id]

\* configurations of the two slots: the scene slot names a scene that
\* exists or one that does not
FallbackSlotConfigs ==
  {[FallbackOff EXCEPT !.scene_fallback = Slot(e1, id),
                       !.sequence_fallback = Slot(e2, "blackout")] :
     e1 \in BOOLEAN, e2 \in BOOLEAN, id \in {"blackout", "missing"}}

\* bodies of POST /api/fallback: the key that is present, and its fields
FallbackRequests ==
  {[key |-> k, enabled |-> e, scene_id |-> id, type |-> "scene"] :
     k \in {"scene_fallback", "global_scene_fallback", "sequence_fallback",
            "scene_and_sequence", "legacy"},
     e \in BOOLEAN, id \in {"blackout", "missing"}}

\* POST /api/fallback.  The first key found decides and the handler returns:
\* scene_fallback, global_scene_fallback, sequence_fallback, then the legacy
\* body {type, id, enabled}, which replaces the whole configuration
\* (autostart is not enabled, start_autostart returns at once).
set_fallback(data) ==
  /\ fallback_config' =
       CASE data.key \in {"scene_fallback", "global_scene_fallback",
                          "scene_and_sequence"} ->
              [fallback_config EXCEPT
                 !.scene_fallback = Slot(data.enabled, data.scene_id)]
         [] data.key = "sequence_fallback" ->
              [fallback_config EXCEPT
                 !.sequence_fallback = Slot(data.enabled, data.scene_id)]
         [] OTHER ->
              IF data.enabled
              THEN [FallbackOff EXCEPT !.enabled = TRUE, !.type = data.type,
                                       !.id = data.scene_id]
              ELSE FallbackOff
  /\ UNCHANGED << playback, shutdown_requested, last_mqtt_channel_update,
                  timing, env, dmx_followers_settings, senders, thr,
                  received, fb_fired, armed, stamps, seq_cleared_by >>

\* one scene is played, and the fallback timers that follow from it
InitFallback ==
  Construct([cmds |-> 1, fallbacks |-> MaxChain], FallbackSlotConfigs,
            {FollowersOff})

NextFallback ==
  \/ \E s \in DOMAIN scenes : play_scene_api(s)
  \/ \E data \in FallbackRequests : set_fallback(data)
  \/ \E t \in ThreadIds :
       \/ play_scene_stop_programmable(t)
       \/ play_scene_set_scene(t)
       \/ play_scene_start(t)
       \/ play_scene_run(t)
       \/ trigger_scene_fallback(t)
       \/ run_fallback(t)

SpecFallback == InitFallback /\ [][NextFallback]_vars


\* ================================================================ properties
Workers == {t \in ThreadIds : thr[t].kind \in {"seqrun", "progrun"}}

\* the pcs of a worker that has left its loop
ExitPcs == {"sq_cleanup", "sq_fallback", "pr_cleanup", "pr_fallback", "free"}

\* the pcs at which a worker tests its slot
CheckPcs == {"sq_while", "sq_step", "sq_wait", "pr_while"}

Idle ==
  /\ current_scene_playback = None
  /\ current_sequence_playback = None
  /\ current_programmable_scene_playback = None

Quiet == \A t \in ThreadIds : thr[t].kind = "free"

Acts(t) == thr'[t].pc # thr[t].pc

\* a playback worker writes a step or a frame, or plays the scene of a step
WorkerWrites ==
  \E t \in Workers :
    /\ Acts(t)
    /\ \/ thr[t].pc = "sq_apply"
       \/ thr[t].pc = "ps_clearseq"
       \/ thr[t].pc = "pr_frame" /\ senders' # senders

\* C1: at most one of current_scene_playback, current_sequence_playback and
\* current_programmable_scene_playback is set, in every reachable state.
C1_AtMostOneSlot ==
  (IF current_scene_playback # None THEN 1 ELSE 0)
  + (IF current_sequence_playback # None THEN 1 ELSE 0)
  + (IF current_programmable_scene_playback # None THEN 1 ELSE 0) <= 1

\* C2: at most one playback worker (sequence or programmable run loop) is
\* inside its loop at any instant.
C2_AtMostOneWorker ==
  Cardinality({t \in Workers : thr[t].pc \notin ExitPcs}) <= 1

\* C3: once a play_* call has installed its mode, a worker of the earlier
\* mode leaves its loop at its next test of the slot and writes no further
\* step or frame.
C3_PlayCancelsEarlierMode ==
  [][\A t \in Workers :
       (thr[t].superseded /\ Acts(t)) =>
         /\ thr[t].pc \in CheckPcs => (thr'[t].broke \/ thr'[t].pc \in ExitPcs)
         /\ thr[t].pc # "sq_apply"
         /\ thr[t].pc = "pr_frame" => senders' = senders]_vars

\* C4: a looping sequence A is playing, play_scene(B) is called and returns,
\* and A's worker and B's thread have ended: the state is Scene(B) and every
\* channel that is not null in B holds B's value.
C4_PreemptionBySceneWins ==
  ( /\ Len(received) = 2
    /\ received[1].op = "play_sequence" /\ sequences[received[1].arg].loop
    /\ received[2].op = "play_scene" /\ received[2].alone
    /\ fallback_config = FallbackOff
    /\ Quiet )
  => /\ current_scene_playback = Some(received[2].arg)
     /\ current_sequence_playback = None
     /\ current_programmable_scene_playback = None
     /\ \A n \in DOMAIN senders : \A c \in Channels :
          scenes[received[2].arg][c] # NoValue
            => senders[n].universe_data[c] = scenes[received[2].arg][c]

\* stop was the last command, received when every earlier handler had
\* returned; its handler has returned, and no fallback timer has run out since
AfterStop ==
  /\ Len(received) > 0
  /\ received[Len(received)].op = "stop"
  /\ received[Len(received)].alone
  /\ ~fb_fired
  /\ \A t \in ThreadIds : thr[t].kind # "cmd"

\* C5: after stop the three slots are cleared and the worker that was
\* running applies no further step.
C5_StopMakesIdle ==
  /\ [](AfterStop => Idle)
  /\ [][AfterStop => ~WorkerWrites]_vars

\* C6: a fallback timer armed by a sequence worker (sequence fallback or
\* legacy fallback) is armed only by a worker that played all its steps,
\* never by one that stop or another play_* call ended.
C6_FallbackOnlyOnCompletion ==
  \A t \in ThreadIds :
    (thr[t].kind = "fb" /\ thr[t].ctx = "seqrun")
      => thr[t].cancel \notin {"stop", "play"}

\* C7: no step of stop_playback changes the universe of a sink or what the
\* sink has put on the wire.
C7_StopLeavesFrame ==
  [][ /\ \A t \in ThreadIds :
           (thr[t].kind = "cmd" /\ thr[t].op = "stop" /\ Acts(t))
             => senders' = senders
      /\ (received' # received /\ received'[Len(received')].op = "stop")
             => senders' = senders ]_vars

\* a stop has just cleared a running sequence while a channel is lit
C7_Witness ==
  \E t \in ThreadIds :
    /\ thr[t].kind = "cmd" /\ thr[t].op = "stop"
    /\ thr[t].pc = "st_prog" /\ thr[t].stopped
    /\ \E n \in DOMAIN senders : \E c \in Channels :
         senders[n].universe_data[c] # 0 /\ senders[n].wire[c] # 0

\* play_scene from Idle was the only command and its thread has ended
SceneApplied ==
  /\ Len(received) = 1
  /\ received[1].op = "play_scene"
  /\ ~fb_fired
  /\ Quiet

\* C8 as stated: after play_scene from Idle has applied the scene the
\* controller is Idle again and status reports is_playing = false.
C8_SceneReturnsToIdle ==
  SceneApplied => (current_scene_playback = None /\ ~is_playing)

\* the steps of stop_playback and of the play_* calls that write
\* current_scene_playback
SceneSlotWriters == {"st_seq", "st_scene", "ps_setscene", "pq_install", "pp_install"}

\* C8 as amended: after play_scene from Idle has applied the scene the
\* controller stays in Scene mode: current_scene_playback is that scene and
\* status reports is_playing = true; a set scene slot changes only in a step
\* of stop_playback or of a play_* call.
C8_SceneStaysUntilStopOrPlay ==
  /\ [](SceneApplied =>
          (current_scene_playback = Some(received[1].arg) /\ is_playing))
  /\ [][(current_scene_playback # None
           /\ current_scene_playback' # current_scene_playback)
          => \E t \in ThreadIds : thr[t].pc \in SceneSlotWriters /\ Acts(t)]_vars

C8_Witness ==
  /\ SceneApplied
  /\ current_scene_playback = Some(received[1].arg)
  /\ \A n \in DOMAIN senders :
       senders[n].universe_data[1] = scenes[received[1].arg][1]

\* C9: a sequence that nothing stops or pre-empts applies its steps in index
\* order, each once per pass; a sequence that does not loop ends with all
\* its steps applied and the controller Idle, a looping one never ends.
C9_StepsInOrder ==
  ( /\ Len(received) = 1
    /\ received[1].op = "play_sequence"
    /\ fallback_config = FallbackOff )
  => \A t \in ThreadIds :
       thr[t].kind = "seqrun" =>
         /\ \A k \in 1..Len(thr[t].log) : thr[t].log[k] = k - 1
         /\ thr[t].pc = "sq_fallback" =>
              (Len(thr[t].log) = Len(StepsOf(t)) /\ Idle)
         /\ thr[t].loop => thr[t].pc \notin ExitPcs

\* C10: no scene fallback timer is armed by a scene that a sequence step
\* played.
C10_NoFallbackFromSequenceStep ==
  \A t \in ThreadIds :
    (thr[t].kind = "fb" /\ thr[t].op = "scene") => thr[t].ctx # "seqrun"

\* the playback commands
PlayOps == {"play_scene", "play_sequence", "play_programmable"}

\* C11: the scene that a scene fallback timer played arms no scene fallback
\* timer of its own.
C11_FallbackSceneArmsNothing ==
  \A t \in ThreadIds :
    (thr[t].kind = "fb" /\ thr[t].op = "scene") => thr[t].ctx # "fb"

\* C12: a fallback timer that was armed before a play_* request was received
\* never plays its scene or sequence after that request.
C12_PlayCancelsArmedTimer ==
  [][\A t \in ThreadIds :
       ( /\ thr[t].kind = "fb" /\ thr[t].pc = "fb_sleep" /\ Acts(t)
         /\ thr'[t].pc \in {"ps_stopprog", "pq_stopprog"} )
       => \A k \in (thr[t].at + 1)..Len(received) :
            received[k].op \notin PlayOps]_vars

\* C13: when play_scene.run has applied a scene, a timer for the configured
\* scene_id is armed exactly when scene_fallback.enabled is set (and names a
\* scene), whatever the sequence_fallback slot holds; the timer plays the
\* scene exactly when the scene exists; and a POST /api/fallback that sets
\* one slot leaves the other slot as it was.
C13_SceneFallbackOwnGate ==
  [][ /\ \A t \in ThreadIds :
           (thr[t].pc = "sr_fallback" /\ Acts(t))
             => /\ (armed' = armed + 1)
                     <=> ( /\ fallback_config.scene_fallback.enabled
                           /\ fallback_config.scene_fallback.scene_id # "" )
                /\ armed' = armed + 1 =>
                     \E u \in ThreadIds :
                       /\ thr[u].kind = "free" /\ thr'[u].kind = "fb"
                       /\ thr'[u].op = "scene"
                       /\ thr'[u].arg = fallback_config.scene_fallback.scene_id
      /\ \A t \in ThreadIds :
           ( /\ thr[t].kind = "fb" /\ thr[t].op = "scene"
             /\ thr[t].pc = "fb_sleep" /\ Acts(t) )
             => ( (thr'[t].pc = "ps_stopprog" /\ thr'[t].scene = thr[t].arg)
                    <=> thr[t].arg \in DOMAIN scenes )
      /\ \A data \in FallbackRequests : set_fallback(data) =>
           /\ data.key \in {"scene_fallback", "global_scene_fallback",
                             "scene_and_sequence"}
                => fallback_config'.sequence_fallback = fallback_config.sequence_fallback
           /\ data.key = "sequence_fallback"
                => fallback_config'.scene_fallback = fallback_config.scene_fallback
    ]_vars

\* a second fallback timer is armed for the scene slot while the sequence
\* slot is disabled
C13_Witness ==
  /\ \E t \in ThreadIds : thr[t].kind = "fb" /\ thr[t].op = "scene"
  /\ fallback_config.scene_fallback.enabled
  /\ ~fallback_config.sequence_fallback.enabled
  /\ armed >= 2

\* C14: while a sequence is paused its worker leaves no wait for the next
\* step (or for the end of the pass).
C14_PausedSequenceHolds ==
  [][\A t \in ThreadIds :
       ~( /\ thr[t].kind = "seqrun" /\ thr[t].pc = "sq_wait" /\ Acts(t)
          /\ playback_paused /\ current_sequence_playback # None
          /\ thr'[t].pc \in {"sq_step", "sq_while", "sq_cleanup"} )]_vars

\* C15: whenever the programmable worker evaluates a frame, the effective
\* time it uses is the time that passed since it started while playback was
\* not paused.
C15_EffectiveTimeExcludesPause ==
  [][\A t \in ThreadIds :
       ( /\ thr[t].kind = "progrun" /\ thr[t].pc = "pr_while"
         /\ thr'[t].kind = "progrun" /\ thr'[t].pc = "pr_frame" )
       => EffectiveTime(t) = active - thr[t].base]_vars

\* the universe of the sink n
Universe(n) == senders[n].universe_data

\* C16: the universe of every sink holds, for each channel, an integer of
\* 0..255.
C16_UniverseHoldsOctets ==
  \A n \in DOMAIN senders :
    /\ DOMAIN Universe(n) = Channels
    /\ \A c \in Channels : Universe(n)[c] \in 0..MaxValue

\* the request received last, while it is received
Arrives(op) ==
  /\ Len(received') = Len(received) + 1
  /\ received'[Len(received')].op = op

\* a message on dmx/set/channel/<N> that is to be rejected
Rejected(msg) ==
  \/ ParseInt(msg[1]) = None
  \/ ParseInt(msg[2]) = None
  \/ /\ ParseInt(msg[1]) # None /\ ParseInt(msg[2]) # None
     /\ \/ ParseInt(msg[1])[1] \notin Channels
        \/ ParseInt(msg[2])[1] \notin 0..MaxValue

\* C17: a bus message on dmx/set/channel/<N> whose channel or payload is no
\* integer, or is out of range, changes no sink's universe and not
\* last_mqtt_channel_update, and nothing is sent for it, at once or later.
C17_RejectedMessageChangesNothing ==
  [][( Arrives("dmx/set/channel") /\ Rejected(received'[Len(received')].arg) )
       => /\ senders' = senders
          /\ last_mqtt_channel_update' = last_mqtt_channel_update
          /\ thr' = thr]_vars

\* C17 happens: a rejected message has arrived while a sink held a universe
\* that was not on the wire
C17_Witness ==
  /\ received # <<>>
  /\ received[Len(received)].op = "dmx/set/channel"
  /\ Rejected(received[Len(received)].arg)
  /\ \E n \in DOMAIN senders : senders[n].wire # Universe(n)

\* thread t takes a step
Moves(t) == thr'[t] # thr[t]

\* the thread t of play_scene.run writes its scene
Applies(t) == thr[t].kind = "scenerun" /\ thr[t].pc = "sr_apply" /\ Moves(t)

\* with followers enabled, channel c is listed as a follower of channel src
Follows(c, src) ==
  /\ dmx_followers_settings.enabled
  /\ \E k \in 1..Len(dmx_followers_settings.mappings) :
       /\ dmx_followers_settings.mappings[k][1] = src
       /\ \E j \in 1..Len(dmx_followers_settings.mappings[k][2]) :
            dmx_followers_settings.mappings[k][2][j] = c

\* the step taken is a mutation that names channel c, or a blackout
Names(c) ==
  \/ Arrives("dmx/set/channel") /\ ParseInt(received'[Len(received')].arg[1]) = Some(c)
  \/ Arrives("api/dmx/channel") /\ received'[Len(received')].arg[1] = c
  \/ Arrives("api/dmx/blackout")
  \/ \E t \in ThreadIds : thr[t].pc = "all_set" /\ Moves(t) /\ thr[t].i = c
  \/ \E t \in ThreadIds : Applies(t) /\ scenes[thr[t].arg][c] # NoValue

\* the step taken writes a scene that names a channel that c follows
NamesSourceOf(c) ==
  \E t \in ThreadIds, src \in Channels :
    Applies(t) /\ Follows(c, src) /\ scenes[thr[t].arg][src] # NoValue

C20_FollowersWrittenWithSource ==
  [][\A n \in DOMAIN senders, src \in Channels, c \in Channels :
       ( Follows(c, src) /\ senders'[n].universe_data[src] # Universe(n)[src] )
       => senders'[n].universe_data[c] = senders'[n].universe_data[src]]_vars

\* the sources of which c is listed as a follower, among the keys of a map
SourcesIn(channels, c) == {src \in DOMAIN channels : Follows(c, src)}

\* C21: apply_follower_channels returns its argument when followers are
\* disabled; when enabled the result has the keys of the argument and the
\* followers of the sources among them, no others; a follower has the value
\* the argument gives to one of its sources, every other key its own value:
\* nothing is taken from a value the function itself wrote.
C21_FollowersAppliedOnce ==
  call # None =>
    LET channels == call[1].arg
        result == call[1].result
    IN IF ~dmx_followers_settings.enabled THEN result = channels
       ELSE /\ DOMAIN result =
                 (DOMAIN channels) \cup {c \in Keys : SourcesIn(channels, c) # {}}
            /\ \A c \in DOMAIN result :
                 IF SourcesIn(channels, c) # {}
                 THEN \E src \in SourcesIn(channels, c) : result[c] = channels[src]
                 ELSE result[c] = channels[c]

\* C21 happens: with 1 -> [2] and 2 -> [3] enabled a map with the key 1 only
\* was given: the result has the keys 1 and 2, not 3
C21_Witness ==
  /\ call # None
  /\ dmx_followers_settings = [enabled |-> TRUE,
                               mappings |-> << <<1, <<2>>>>, <<2, <<3>>>> >>]
  /\ call[1].arg = (1 :> 200)
  /\ DOMAIN call[1].result = {1, 2}

\* the senders after play_scene.run has written the scene s
PlayedScene(snd, s) ==
  LET set == set_channels_with_followers(snd, SceneChannels(scenes[s]))
  IN IF auto_send THEN DMXManager_send(set) ELSE set

\* only the scene s was played, once or more, and every call has finished
OnlyPlayed(s) ==
  /\ received # <<>>
  /\ \A i \in 1..Len(received) :
       received[i].op = "play_scene" /\ received[i].arg = s
  /\ \A t \in ThreadIds : ~Live(t)

\* C22: when one scene was played twice in a row, and nothing else, the
\* universes and the wire are as they are after it was played once.
C22_PlayTwiceAsOnce ==
  \A s \in DOMAIN scenes :
    OnlyPlayed(s) => senders = PlayedScene(DefaultSenders, s)

\* C22 happens: with followers enabled the scene "warm" was played twice and
\* written twice
C22_Witness ==
  /\ OnlyPlayed("warm")
  /\ Len(received) > 1
  /\ dmx_followers_settings.enabled

\* a universe of zeroes
Dark == [c \in Channels |-> 0]

\* C23 as stated: blackout sets every channel of the sinks to zero and puts
\* nothing on the wire.
C23_BlackoutSendsNothing ==
  [][Arrives("api/dmx/blackout")
       => \A n \in DOMAIN senders :
            senders'[n].universe_data = Dark /\ senders'[n].wire = senders[n].wire]_vars

\* C23, amended: blackout sets every channel of the active sinks to zero and
\* sends the zeroes itself; a sink that is not active is left alone.
C23_BlackoutSendsZeroes ==
  [][Arrives("api/dmx/blackout")
       => \A n \in DOMAIN senders :
            IF senders[n].active
            THEN senders'[n].universe_data = Dark /\ senders'[n].wire = Dark
            ELSE senders'[n] = senders[n]]_vars

\* C23 happens: channel 1 was set to 200 and sent, then came the blackout,
\* and the wire is dark
C23_Witness ==
  /\ Len(received) = MaxCmds
  /\ received[1].op = "api/dmx/channel" /\ received[1].arg = <<1, 200>>
  /\ received[MaxCmds].op = "api/dmx/blackout"
  /\ last_mqtt_channel_update # None
  /\ \A n \in DOMAIN senders : senders[n].wire = Dark /\ Universe(n) = Dark


\* no request to the retransmission settings is being handled
Settled == \A t \in ThreadIds : thr[t].kind # "cmd"

\* a retransmitter is alive that the event has not told to stop
Retransmitting ==
  /\ ~dmx_retransmission_stop
  /\ \E t \in ThreadIds : thr[t].kind = "retx"

\* C24: once the requests to the retransmission settings have been handled,
\* a retransmitter is at work when the stored setting is enabled, and none
\* is, or the event has told it to stop, when it is disabled.
C24_RetransmitsIffEnabled ==
  Settled => (dmx_retransmission_settings.enabled <=> Retransmitting)


\* the bus messages received so far that record an update
Recorded ==
  {i \in 1..Len(received) :
     received[i].op = "dmx/set/channel" /\ ~Rejected(received[i].arg)}

\* the answers of get_channel_update so far that carry an update
Answered == {i \in 1..Len(returned) : ~returned[i].error}

\* C25: the answers of GET /api/dmx/channel-update that carry an update are
\* no more than the updates recorded: no update is answered twice.
C25_UpdateAnsweredOnce ==
  Cardinality(Answered) <= Cardinality(Recorded)


\* setup_dmx_senders has returned in thread t
SetUp(t) == thr[t].op = "setup_dmx_senders" /\ thr[t].pc = "ready"

\* C26: after setup_dmx_senders an active test sink test_<name> is
\* registered for every configured sink whose start failed, and some sink is
\* active.
C26_TestSinkForEveryFailure ==
  \A t \in ThreadIds :
    SetUp(t) =>
      /\ \A k \in 1..Len(thr[t].log) :
           /\ TestName(thr[t].log[k]) \in DOMAIN senders
           /\ senders[TestName(thr[t].log[k])].active
           /\ senders[TestName(thr[t].log[k])].test
      /\ \E n \in DOMAIN senders : senders[n].active


\* C27: a POST /api/dmx/all whose list holds an entry that is not valid
\* changes no channel of any sink.
C27_InvalidListChangesNothing ==
  [][\A t \in ThreadIds :
       ( /\ thr[t].pc = "all_set" /\ Moves(t)
         /\ \E i \in 1..Len(thr[t].channels) : ~InRange(thr[t].channels[i]) )
       => \A n \in DOMAIN senders : senders'[n].universe_data = Universe(n)]_vars


\* C28: a thread that is sending to a sink holds neither the lock of the
\* manager nor the lock of a sender.
C28_NoLockAcrossSend ==
  \A t \in ThreadIds : thr[t].pc = "ss_emit" => thr[t].holds = {}

\* C29: a sequence triggered by its bus topic or by autostart plays the same
\* steps with the same loop flag as POST /api/sequences/<id>/play: its
\* worker walks the list of steps, not the stored object, and loops as the
\* stored sequence says.
C29_TriggerPlaysAsApi ==
  \A t \in ThreadIds :
    thr[t].kind = "seqrun" =>
      /\ ~thr[t].raw
      /\ thr[t].loop = sequences[thr[t].arg].loop

\* a thread is inside play_sequence or play_programmable_scene, between the
\* assignment of the slot and the start of the worker
Installing(kind) ==
  \E t \in ThreadIds :
    thr[t].pc \in (IF kind = "seqrun" THEN {"pq_install"}
                   ELSE {"pp_clearseq", "pp_install"})

\* C30: a playback worker never leaves its loop by an error: whenever the
\* sequence slot or the programmable slot is set, a worker of that kind is
\* alive or the call that set the slot is about to start one.
C30_SlotHasWorker ==
  /\ current_sequence_playback # None =>
       \/ \E t \in ThreadIds : thr[t].kind = "seqrun"
       \/ Installing("seqrun")
  /\ current_programmable_scene_playback # None =>
       \/ \E t \in ThreadIds : thr[t].kind = "progrun"
       \/ Installing("progrun")

\* C31: a looping programmable scene leaves the programmable slot only by a
\* stop or by the play call that pre-empts it: no worker's cleanup takes the
\* slot away from a looping scene. (A scene that does not loop ends by the
\* cleanup of its worker once its time is up.)
C31_LoopingEndsOnlyByStopOrPlay ==
  [][\A p \in DOMAIN programmable_scenes :
       /\ current_programmable_scene_playback = Some(p)
       /\ programmable_scenes[p].loop
       /\ current_programmable_scene_playback' # Some(p)
       => ~ \E t \in ThreadIds : thr[t].pc = "pr_cleanup" /\ thr'[t] # thr[t]]_vars

\* C32: at shutdown the retransmitter is stopped before the sinks are
\* stopped: once the manager has stopped and dropped its senders, no
\* retransmission thread is alive.
C32_RetransmitterStoppedBeforeSinks ==
  DOMAIN senders = {} => ~RetransmitterAlive

\* n is a nearest integer to the number v stands for, brought into 0..255
NearestClamped(v, n) ==
  \E r \in -1000..1000 :
    /\ 2 * r - v \in -1..1
    /\ n = (IF r < 0 THEN 0 ELSE IF r > MaxValue THEN MaxValue ELSE r)

\* C33: evaluate_expression returns an integer in 0..255 for every
\* expression, time and channel: a number rounded to a nearest integer and
\* clamped, of a tuple the component of channel 7, 8, 9 and 0 for another
\* channel, and 0 when the evaluation raises.
C33_EvaluatesIntoRange ==
  call # None =>
    LET expression == call[1].arg[1]
        t == call[1].arg[2]
        ch == call[1].arg[3]
        value == Eval(expression, t, ch)
        result == call[1].result
    IN /\ result \in 0..MaxValue
       /\ value.kind = "number" => NearestClamped(value.v[1], result)
       /\ value.kind = "tuple" /\ ch \notin {7, 8, 9} => result = 0
       /\ value.kind = "tuple" /\ ch \in {7, 8, 9} /\ ch - 6 <= Len(value.v) =>
            NearestClamped(value.v[ch - 6], result)
       /\ value.kind = "raise" => result = 0

C33_Witness ==
  /\ call # None
  /\ call[1].arg = << "(300,-5*t)", 1, 7 >>
  /\ call[1].result = MaxValue

\* C34: a scene step and a direct step wait the same time for the same
\* stored duration: an int is milliseconds, any other number is seconds,
\* and a missing duration is one second.
C34_DurationNormalisedAlike ==
  call # None =>
    LET duration == call[1].arg[2] IN
    call[1].result = (IF duration = << >> THEN 1000
                      ELSE IF duration[1] = "int" THEN duration[2]
                      ELSE 100 * duration[2])

\* C35: the cleanup of a worker that a later play call has superseded does
\* not clear the slot of the newer mode and does not reset its step index.
C35_StaleCleanupKeepsNewerSlot ==
  [][\A t \in ThreadIds :
       (thr[t].superseded /\ thr'[t] # thr[t]) =>
         /\ thr[t].pc = "sq_cleanup" =>
               /\ current_sequence_playback' = current_sequence_playback
               /\ current_sequence_playback # None =>
                     current_step_index' = current_step_index
         /\ thr[t].pc = "pr_cleanup" =>
               current_programmable_scene_playback' =
                 current_programmable_scene_playback]_vars

\* C36: any two active sinks hold the same universe frame.
C36_ActiveSinksAgree ==
  \A a, b \in DOMAIN senders :
    senders[a].active /\ senders[b].active =>
      senders[a].universe_data = senders[b].universe_data

\* C37: playback is paused only while a scene, a sequence or a programmable
\* scene is in its slot, in every state in which no request is being handled.
C37_PausedOnlyWhilePlaying ==
  (\A t \in ThreadIds : thr[t].kind # "cmd") /\ playback_paused => is_playing

\* C38: every frame a sink has emitted is the frame after whole commits: as
\* every commit (a set_channels, a blackout) gives all channels one value,
\* the emitted frame has one value on all its channels.
C38_EmittedFrameIsWhole ==
  \A n \in DOMAIN senders :
    \A c, d \in Channels : senders[n].wire[c] = senders[n].wire[d]

\* a send has emitted the frame of one commit while another commit waits
C38_Witness ==
  \E t, u \in ThreadIds :
    /\ thr[t].pc = "ss_unlock"
    /\ thr[u].pc \in {"mc_lock", "sc_lock"} /\ thr[u].channels[1] = 100
    /\ \A n \in DOMAIN senders : senders[n].wire = [c \in Channels |-> 200]

\* C39: the locks of the manager and of the senders never deadlock: no
\* thread waits for the lock of the manager while it holds that lock or
\* the lock of a sender, so that every call returns.
C39_NoThreadWaitsOnItsOwnLock ==
  \A t \in ThreadIds :
    thr[t].pc \in {"sd_stop_all", "ms_lock", "mb_lock", "mc_lock"} =>
      thr[t].holds = {}

====
